---------------------------- MODULE Spec2Model ----------------------------
(***************************************************************************)
(* A model of playwright-proxy: an HTTP proxy that replays every inbound   *)
(* request from inside a Chromium page driven by Playwright.               *)
(*                                                                         *)
(* The module holds several state machines over one set of variables:      *)
(*   Spec          the per-request relay, handleProxyRequest, with the     *)
(*                 engine singleton of initBrowser (src/src/index.ts)      *)
(*   SpecStream    the in-page XMLHttpRequest capture of                   *)
(*                 _handleStreamRequest and the stream the caller reads    *)
(*   SpecHeaders   the header pre-clean of handleProxyRequest followed by  *)
(*                 _filterUnsafeHeaders                                    *)
(*   SpecRoute     the route table of the Hono application                 *)
(*   SpecClassify  _isStreamRequest                                        *)
(*   SpecBuffered  _handleRegularRequest                                   *)
(*   SpecGenspark  the /genspark token endpoint and its shared context     *)
(*   SpecShutdown  cleanup on SIGINT and SIGTERM                           *)
(*   SpecEngine    initBrowser called repeatedly                           *)
(*   SpecRelease   the release of one request's page, run repeatedly       *)
(*   SpecLifecycle the relay and cleanup in one process                    *)
(* Each specification leaves the variables of the others unchanged.        *)
(***************************************************************************)
EXTENDS Integers, Sequences, FiniteSets, TLC

VARIABLES
    \* ---- relay (Spec) ----
    browser,      \* module variable `browser`: 0 is null, r > 0 the engine
                  \* whose launch request r started
    launches,     \* number of chromium.launch() calls started so far
    engines,      \* engines whose launch resolved (running browser processes)
    pc,           \* per request: the await it is suspended at
    eng,          \* per request: the local const `browser` (0: none yet)
    hasPage,      \* per request: browser.newPage() resolved for it
    isInjected,   \* per request: handler.isInjected
    closeCalls,   \* per request: number of page.close() invocations
    determined,   \* per request: what try/catch decided to return
    outcome,      \* per request: what the caller of handleProxyRequest got
    page,         \* per request: the local const `page` (0: none yet)
    nPages,       \* number of pages browser.newPage() has created so far
    ran,          \* in-page executions so far: <<page, request>> pairs
    classifications, \* per request: the classes _isStreamRequest computed
    executors,    \* per request: the executors invoked, in order
    originRequests, \* per request: requests issued to the origin
    \* ---- streaming capture (SpecStream) ----
    readyState,   \* xhr.readyState
    status,       \* xhr.status
    responseText, \* xhr.responseText
    originText,   \* everything the origin has written (history)
    nWrites,      \* number of origin writes so far
    xhrFail,      \* "none" | "error" | "abort": what the transport reported
    chunks,       \* in-page `chunks`
    lastSentLength, \* in-page `lastSentLength`
    responseHeaders, \* in-page `responseHeaders`
    promise,      \* in-page promise: "pending" | "resolved" | "rejected"
    result,       \* what page.evaluate returned to the host (NoResult: nothing)
    response,     \* the Response handleRequest returned (NoResponse: not yet)
    callerRead,   \* chunks the caller has read from response.body
    pageState,    \* the request's page: "open" | "closed" | "closeFailed"
    \* ---- headers (SpecHeaders) ----
    hPhase,       \* "inbound" | "cleaned" | "filtered" | "direct"
    hIn,          \* the header map under test
    hOut,         \* the map produced by the last step
    \* ---- routing (SpecRoute) ----
    rq,           \* the inbound request: method, path, url parameter, files
    routeResp,    \* the response the route table produced (NoResponse: none)
    \* ---- classification (SpecClassify) ----
    cHeaders,     \* the header map of the request under classification
    cUrl,         \* its target url: host, path, query
    cRelayed,     \* the class handleRequest gave it ("none": not yet)
    cCalls,       \* results of _isStreamRequest called on cHeaders as given
    cRecased,     \* result of _isStreamRequest on cHeaders with keys recased
    cSanitized,   \* result of _isStreamRequest on _filterUnsafeHeaders(cHeaders)
    \* ---- buffered executor (SpecBuffered) ----
    bOrigin,      \* the origin's response: status, statusText, headers, body
    bPc,          \* "fetching" | "reading" | "evaluated" | "done"
    bReceived,    \* body bytes the page has received so far
    bResult,      \* what page.evaluate returned to the host (NoResult: nothing)
    bResponse,    \* the Response handleRequest returned (NoResponse: not yet)
    \* ---- token endpoint (SpecGenspark) ----
    gensparkContext, \* module variable `gensparkContext`: 0 is null
    ctxOpen,      \* contexts created and not closed
    gpc,          \* per /genspark request: the await it is suspended at
    gCookies,     \* per request: the request carried cookies
    gCtx,         \* per request: the context its pending call was made on
    gFailedAt,    \* per request: the step that failed ("none": none did)
    gToken,       \* per request: the local `token`
    gDecided,     \* per request: the code of the JSON about to be returned
    gOut,         \* per request: what the caller got (NoResponse: nothing)
    jar,          \* per context: whose cookies it holds (0: none), a
                  \* request's id standing for the cookies it sent
    \* ---- shutdown (SpecShutdown) ----
    spc,          \* per signal delivery: where its cleanup() call stands
    sCtx,         \* per delivery: the context cleanup called close() on
    sErr,         \* per delivery: the close() calls of cleanup that rejected
    exited,       \* process.exit(0) has been called
    variant,      \* which server file runs: "current" (index.ts 1-263) or
                  \* "legacy" (index.ts 264-463)
    \* ---- engine acquisition (SpecEngine) ----
    callPc,       \* per initBrowser call: "idle" | "launching" | "returned"
                  \* | "rejected"
    callRet,      \* per call: the engine it returned (0: none)
    callSeen,     \* per call: the engines earlier calls had returned when
                  \* it was made
    callLaunched, \* per call: it started a chromium.launch
    returnedEngines, \* the engines initBrowser calls have returned so far
    \* ---- page release (SpecRelease) ----
    relVariant,   \* which server's release runs: "current" | "legacy"
    relInjected,  \* handler.isInjected of the request's handler
    relOpen,      \* the pages open on the engine
    relPc,        \* "idle" | "closing": a release is waiting for page.close()
    relOutcomes,  \* per release run so far: "ok" | "raised"
    relFirst      \* handler and engine state right after the first release

varsEngine == <<browser, launches, engines>>
varsPage == <<page, nPages, ran>>
varsExec == <<classifications, executors, originRequests>>
varsRelayReq == <<pc, eng, hasPage, isInjected, closeCalls, determined, outcome,
                  varsPage, varsExec>>
varsRelay == <<varsEngine, varsRelayReq>>
varsStream == <<readyState, status, responseText, originText, nWrites, xhrFail,
                chunks, lastSentLength, responseHeaders, promise, result,
                response, callerRead, pageState>>
varsHeaders == <<hPhase, hIn, hOut>>
varsRoute == <<rq, routeResp>>
varsClassify == <<cHeaders, cUrl, cRelayed, cCalls, cRecased, cSanitized>>
varsBuffered == <<bOrigin, bPc, bReceived, bResult, bResponse>>
varsContext == <<gensparkContext, ctxOpen>>
varsGReq == <<gpc, gCookies, gCtx, gFailedAt, gToken, gDecided, gOut, jar>>
varsGenspark == <<varsContext, varsGReq>>
varsShutdown == <<spc, sCtx, sErr, exited, variant>>
varsCalls == <<callPc, callRet, callSeen, callLaunched, returnedEngines>>
varsRelease == <<relVariant, relInjected, relOpen, relPc, relOutcomes,
                 relFirst>>
vars == <<varsRelay, varsStream, varsHeaders, varsRoute, varsClassify,
          varsBuffered, varsGenspark, varsShutdown, varsCalls, varsRelease>>

\* What the actions of each machine leave unchanged.
notRelay == <<varsStream, varsHeaders, varsRoute, varsClassify,
        varsBuffered, varsGenspark,
        varsShutdown, varsCalls, varsRelease>>
notStream == <<varsRelay, varsHeaders, varsRoute, varsClassify,
        varsBuffered, varsGenspark,
        varsShutdown, varsCalls, varsRelease>>
notHeaders == <<varsRelay, varsStream, varsRoute, varsClassify,
        varsBuffered, varsGenspark,
        varsShutdown, varsCalls, varsRelease>>
notRoute == <<varsRelay, varsStream, varsHeaders, varsClassify,
        varsBuffered, varsGenspark,
        varsShutdown, varsCalls, varsRelease>>
notClassify == <<varsRelay, varsStream, varsHeaders, varsRoute,
        varsBuffered, varsGenspark,
        varsShutdown, varsCalls, varsRelease>>
notGenspark == <<varsRelayReq, varsStream, varsHeaders, varsRoute,
        varsClassify, varsBuffered, varsShutdown, varsCalls, varsRelease>>
notShutdown == <<launches, varsRelayReq, varsStream, varsHeaders, varsRoute,
        varsClassify, varsBuffered, varsGReq, varsCalls, varsRelease>>
notEngine == <<varsRelayReq, varsStream, varsHeaders, varsRoute,
        varsClassify, varsBuffered, varsGenspark, varsShutdown, varsRelease>>
notRelease == <<varsRelay, varsStream, varsHeaders, varsRoute, varsClassify,
        varsBuffered, varsGenspark, varsShutdown, varsCalls>>
notBuffered == <<varsRelay, varsStream, varsHeaders, varsRoute,
        varsClassify, varsGenspark,
        varsShutdown, varsCalls, varsRelease>>

NoResult == [kind |-> "none"]
NoResponse == [kind |-> "none"]

(***************************************************************************)
(* Bounds                                                                  *)
(***************************************************************************)
\* number of inbound proxied requests in a run
NumReq == 2
\* number of discrete writes the origin makes to one streamed response
MaxWrites == 2
\* number of repeated direct calls of _isStreamRequest on one input
MaxCalls == 2
\* length of the longest origin body of the buffered executor, in bytes
MaxBody == 2
\* number of /genspark requests in a run
NumGReq == 2
\* number of signal deliveries in a run
NumSignals == 3
\* number of initBrowser calls in a run
NumCalls == 3
\* number of times the release of one page is run
MaxReleases == 3
\* number of pages open on the engine when the release starts
MaxPages == 3

Req == 1..NumReq

(***************************************************************************)
(* Relay: handleProxyRequest and initBrowser (src/src/index.ts)            *)
(***************************************************************************)
InitRelay ==
    /\ browser = 0
    /\ launches = 0
    /\ engines = {}
    /\ pc = [r \in Req |-> "idle"]
    /\ eng = [r \in Req |-> 0]
    /\ hasPage = [r \in Req |-> FALSE]
    /\ isInjected = [r \in Req |-> FALSE]
    /\ closeCalls = [r \in Req |-> 0]
    /\ determined = [r \in Req |-> "none"]
    /\ outcome = [r \in Req |-> "none"]
    /\ page = [r \in Req |-> 0]
    /\ nPages = 0
    /\ ran = {}
    /\ classifications = [r \in Req |-> <<>>]
    /\ executors = [r \in Req |-> <<>>]
    /\ originRequests = [r \in Req |-> 0]

\* The request is over: the caller got `o`.
Finish(r, o) ==
    /\ pc' = [pc EXCEPT ![r] = "done"]
    /\ outcome' = [outcome EXCEPT ![r] = o]

\* index.ts 84-92 with 21-26: the synchronous prefix of handleProxyRequest.
\* Without a url it answers 400.  Otherwise it calls initBrowser, which tests
\* `!browser` and either starts chromium.launch or returns the stored engine;
\* with an engine in hand browser.newPage() is called.
HandleProxyRequest(r) ==
    /\ pc[r] = "idle"
    /\ \E hasUrl \in BOOLEAN :
        IF ~hasUrl
        THEN /\ Finish(r, "400")
             /\ UNCHANGED <<browser, launches, engines, eng, hasPage,
                            isInjected, closeCalls, determined>>
        ELSE IF browser = 0
        THEN /\ launches' = launches + 1
             /\ pc' = [pc EXCEPT ![r] = "launching"]
             /\ UNCHANGED <<browser, engines, eng, hasPage, isInjected,
                            closeCalls, determined, outcome>>
        ELSE /\ eng' = [eng EXCEPT ![r] = browser]
             /\ pc' = [pc EXCEPT ![r] = "newPage"]
             /\ UNCHANGED <<browser, launches, engines, hasPage, isInjected,
                            closeCalls, determined, outcome>>
    /\ UNCHANGED <<varsPage, varsExec>>
    /\ UNCHANGED notRelay

\* LaunchSettled with the assignment made before the launch has settled: a
\* launch that fails leaves its handle in `browser`.
LaunchSettledStoresPending(r) ==
    /\ pc[r] = "launching"
    /\ \E ok \in BOOLEAN :
        IF ok
        THEN /\ engines' = engines \cup {r}
             /\ browser' = r
             /\ eng' = [eng EXCEPT ![r] = r]
             /\ pc' = [pc EXCEPT ![r] = "newPage"]
             /\ UNCHANGED <<launches, hasPage, isInjected, closeCalls,
                            determined, outcome>>
        ELSE /\ Finish(r, "threw")
             /\ browser' = r
             /\ UNCHANGED <<launches, engines, eng, hasPage,
                            isInjected, closeCalls, determined>>
    /\ UNCHANGED <<varsPage, varsExec>>
    /\ UNCHANGED notRelay

\* index.ts 26-41: chromium.launch() settles.  On success the new engine is
\* stored in `browser` (whatever it held) and returned; on failure the
\* rejection leaves initBrowser and handleProxyRequest (line 92 is outside try).
LaunchSettled(r) ==
    /\ pc[r] = "launching"
    /\ \E ok \in BOOLEAN :
        IF ok
        THEN /\ engines' = engines \cup {r}
             /\ browser' = r
             /\ eng' = [eng EXCEPT ![r] = r]
             /\ pc' = [pc EXCEPT ![r] = "newPage"]
             /\ UNCHANGED <<launches, hasPage, isInjected, closeCalls,
                            determined, outcome>>
        ELSE /\ Finish(r, "threw")
             /\ UNCHANGED <<browser, launches, engines, eng, hasPage,
                            isInjected, closeCalls, determined>>
    /\ UNCHANGED <<varsPage, varsExec>>
    /\ UNCHANGED notRelay

\* index.ts 93-95: browser.newPage() settles with a page of its own, which
\* the local const `page` holds and the handler is constructed with; a
\* rejection is outside try.
NewPageSettled(r) ==
    /\ pc[r] = "newPage"
    /\ \E ok \in BOOLEAN :
        IF ok
        THEN /\ hasPage' = [hasPage EXCEPT ![r] = TRUE]
             /\ page' = [page EXCEPT ![r] = nPages + 1]
             /\ nPages' = nPages + 1
             /\ pc' = [pc EXCEPT ![r] = "readBody"]
             /\ UNCHANGED <<determined, outcome>>
        ELSE /\ Finish(r, "threw")
             /\ UNCHANGED <<hasPage, determined, page, nPages>>
    /\ UNCHANGED <<ran, varsExec>>
    /\ UNCHANGED <<browser, launches, engines, eng, isInjected, closeCalls>>
    /\ UNCHANGED notRelay

\* index.ts 128-136: the catch block decides the 'Internal Server Error' 500.
Catch500(r) ==
    /\ determined' = [determined EXCEPT ![r] = "500proxy"]
    /\ pc' = [pc EXCEPT ![r] = "finally"]

\* part_000 53-59: handleRequest's own catch returns a 500 Response, which
\* handleProxyRequest returns like any other response (index.ts 123-126).
HandlerCatch500(r) ==
    /\ determined' = [determined EXCEPT ![r] = "500handler"]
    /\ pc' = [pc EXCEPT ![r] = "finally"]

\* index.ts 100-123: method, headers and, for a method other than GET, the
\* awaited c.req.text(); then the header pre-clean and the call of
\* handler.handleRequest, which starts with _inject's page.goto (part_000 38).
ReadBody(r) ==
    /\ pc[r] = "readBody"
    /\ \E body \in {"GET", "read", "failed"} :
        IF body = "failed"
        THEN Catch500(r)
        ELSE /\ pc' = [pc EXCEPT ![r] = "inject"]
             /\ UNCHANGED determined
    /\ UNCHANGED <<browser, launches, engines, eng, hasPage, isInjected,
                   closeCalls, outcome>>
    /\ UNCHANGED <<varsPage, varsExec>>
    /\ UNCHANGED notRelay

\* The page of request r's handler.
HandlerPageLatest(r) == nPages

\* part_000 16 with index.ts 95: the handler's private `page` is the page it
\* was constructed with, the local const of its request.
HandlerPage(r) == page[r]

\* part_000 42-50: _isStreamRequest is called once and the executor of that
\* class is invoked, whose in-page code sends one request to the origin
\* (xhr.send at part_000 226, fetch at 279).
InvokeExecutor(r, class) ==
    /\ classifications' = [classifications EXCEPT ![r] = Append(@, class)]
    /\ executors' = [executors EXCEPT ![r] = Append(@, class)]
    /\ originRequests' = [originRequests EXCEPT ![r] = @ + 1]

\* part_000 319-329 with 38-51: page.goto('about:blank') settles on the
\* handler's page; on success isInjected is set, the request is classified
\* and one executor's page.evaluate is started.
Inject(r) ==
    /\ pc[r] = "inject"
    /\ ran' = ran \cup {<<HandlerPage(r), r>>}
    /\ \E ok \in BOOLEAN :
        IF ok
        THEN /\ isInjected' = [isInjected EXCEPT ![r] = TRUE]
             /\ \E class \in {"stream", "buffered"} : InvokeExecutor(r, class)
             /\ pc' = [pc EXCEPT ![r] = "evaluate"]
             /\ UNCHANGED determined
        ELSE /\ HandlerCatch500(r)
             /\ UNCHANGED <<isInjected, varsExec>>
    /\ UNCHANGED <<page, nPages>>
    /\ UNCHANGED <<browser, launches, engines, eng, hasPage, closeCalls, outcome>>
    /\ UNCHANGED notRelay

\* Evaluate with a fallback: a failed executor is followed by the other one.
EvaluateFallsBack(r) ==
    /\ pc[r] = "evaluate"
    /\ \E res \in {"ok", "evaluateFailed", "responseCtorThrew"} :
        IF res = "ok"
        THEN /\ determined' = [determined EXCEPT ![r] = "response"]
             /\ pc' = [pc EXCEPT ![r] = "finally"]
             /\ UNCHANGED varsExec
        ELSE IF Len(executors[r]) < 2
        THEN /\ executors' = [executors EXCEPT ![r] =
                    Append(@, IF @[Len(@)] = "stream" THEN "buffered"
                              ELSE "stream")]
             /\ originRequests' = [originRequests EXCEPT ![r] = @ + 1]
             /\ UNCHANGED <<classifications, determined, pc>>
        ELSE /\ HandlerCatch500(r)
             /\ UNCHANGED varsExec
    /\ UNCHANGED <<browser, launches, engines, eng, hasPage, isInjected,
                   closeCalls, outcome>>
    /\ UNCHANGED varsPage
    /\ UNCHANGED notRelay

\* part_000 144-248 / 262-310: page.evaluate settles and the Response is
\* constructed; either may throw into handleRequest's catch, which makes no
\* second attempt.
Evaluate(r) ==
    /\ pc[r] = "evaluate"
    /\ \E res \in {"ok", "evaluateFailed", "responseCtorThrew"} :
        IF res = "ok"
        THEN /\ determined' = [determined EXCEPT ![r] = "response"]
             /\ pc' = [pc EXCEPT ![r] = "finally"]
        ELSE HandlerCatch500(r)
    /\ UNCHANGED <<browser, launches, engines, eng, hasPage, isInjected,
                   closeCalls, outcome>>
    /\ UNCHANGED <<varsPage, varsExec>>
    /\ UNCHANGED notRelay

\* part_000 334-337: handler.cleanup() logs and resets isInjected; it has no
\* failing path.
HandlerCleanup(r) ==
    isInjected' = [isInjected EXCEPT ![r] = FALSE]

\* Finally with the page closed only when the try block produced a response.
FinallyClosesOnSuccessOnly(r) ==
    /\ pc[r] = "finally"
    /\ HandlerCleanup(r)
    /\ closeCalls' = [closeCalls EXCEPT ![r] =
                        IF determined[r] = "response" THEN @ + 1 ELSE @]
    /\ pc' = [pc EXCEPT ![r] = "closing"]
    /\ UNCHANGED <<browser, launches, engines, eng, hasPage, determined, outcome>>
    /\ UNCHANGED <<varsPage, varsExec>>
    /\ UNCHANGED notRelay

\* index.ts 137-141: the finally block: await handler.cleanup(), then
\* page.close() is invoked.
Finally(r) ==
    /\ pc[r] = "finally"
    /\ HandlerCleanup(r)
    /\ closeCalls' = [closeCalls EXCEPT ![r] = @ + 1]
    /\ pc' = [pc EXCEPT ![r] = "closing"]
    /\ UNCHANGED <<browser, launches, engines, eng, hasPage, determined, outcome>>
    /\ UNCHANGED <<varsPage, varsExec>>
    /\ UNCHANGED notRelay

\* index.ts 140: the awaited page.close() settles.  It is not wrapped: a
\* rejection leaves the finally block and replaces the value being returned.
PageCloseSettled(r) ==
    /\ pc[r] = "closing"
    /\ \E ok \in BOOLEAN :
        Finish(r, IF ok THEN determined[r] ELSE "threw")
    /\ UNCHANGED <<browser, launches, engines, eng, hasPage, isInjected,
                   closeCalls, determined>>
    /\ UNCHANGED <<varsPage, varsExec>>
    /\ UNCHANGED notRelay

NextRelay ==
    \E r \in Req :
        \/ HandleProxyRequest(r)
        \/ LaunchSettled(r)
        \/ NewPageSettled(r)
        \/ ReadBody(r)
        \/ Inject(r)
        \/ Evaluate(r)
        \/ Finally(r)
        \/ PageCloseSettled(r)


(***************************************************************************)
(* Streaming capture: _handleStreamRequest (src/unnamed/part_000 137-249)  *)
(*                                                                         *)
(* Text is a sequence of characters, so that slicing and concatenation are *)
(* computed and can go wrong.  The machine starts right after xhr.send().  *)
(* The events are those of the XMLHttpRequest standard: readystatechange   *)
(* on entering HEADERS_RECEIVED, LOADING and DONE, progress while the body *)
(* arrives, and for a failed transfer the request error steps, which set   *)
(* readyState to DONE with a network-error response (status 0, empty       *)
(* responseText), fire readystatechange and only then error or abort.      *)
(***************************************************************************)
\* String.prototype.slice(from) on a text.
Slice(text, from) == SubSeq(text, from + 1, Len(text))

\* The concatenation of a sequence of texts.
RECURSIVE Flatten(_)
Flatten(cs) == IF cs = <<>> THEN <<>> ELSE Head(cs) \o Flatten(Tail(cs))

\* What one origin write can carry.
Segments == {<<"a">>, <<"b">>, <<"a", "b">>}

\* Statuses of the origin in this machine: one with a body, one without.
Statuses == {200, 204}

\* Response header blocks of the origin, as getAllResponseHeaders() lines:
\* each line is the list of pieces that line.split(': ') yields.
HeaderBlocks ==
    { {},
      { <<"content-type", "text/plain">>, <<"x-note", "a", "b">> } }

\* part_000 178-184: the lines are split at ': ' and the first two pieces
\* become key (lowercased; getAllResponseHeaders already lowercases) and value.
ParseHeaderBlock(block) ==
    [k \in {line[1] : line \in block} |->
        (CHOOSE line \in block : line[1] = k)[2]]

\* Response statuses that forbid a body (fetch standard "null body status").
NullBodyStatus == {101, 204, 205, 304}

\* The Response constructor (part_000 244-248, 306-310), given a body that is
\* not null: RangeError outside 200..599, TypeError for a null body status.
ResponseCtorThrows(st) == st < 200 \/ st > 599 \/ st \in NullBodyStatus

\* Promise settlement: the first resolve or reject wins.
Settle(p, how) == IF p = "pending" THEN how ELSE p

InitStream ==
    /\ readyState = 1
    /\ status = 0
    /\ responseText = <<>>
    /\ originText = <<>>
    /\ nWrites = 0
    /\ xhrFail = "none"
    /\ chunks = <<>>
    /\ lastSentLength = 0
    /\ responseHeaders = <<>>
    /\ promise = "pending"
    /\ result = NoResult
    /\ response = NoResponse
    /\ callerRead = <<>>
    /\ pageState = "open"

\* The progress listener without its test of the delta.
OnProgressUnguarded(text, chs, last) ==
    [chunks |-> Append(chs, Slice(text, last)), lastSentLength |-> Len(text)]

\* part_000 163-171: the progress listener.
OnProgress(text, chs, last) ==
    LET newChunk == Slice(text, last)
    IN  IF newChunk # <<>>
        THEN [chunks |-> Append(chs, newChunk), lastSentLength |-> Len(text)]
        ELSE [chunks |-> chs, lastSentLength |-> last]

\* OnDone without the final delta.
OnDoneWithoutFinalDelta(text, chs, last) == chs

\* part_000 187-194: the readyState 4 branch takes the final delta; it does
\* not advance lastSentLength.
OnDone(text, chs, last) ==
    LET finalChunk == Slice(text, last)
    IN  IF finalChunk # <<>> THEN Append(chs, finalChunk) ELSE chs

\* part_000 196-201: the value the promise is resolved with.
Resolution(st, hdrs, chs) ==
    [kind |-> "result", status |-> st, headers |-> hdrs, chunks |-> chs]

\* The response headers arrive: readystatechange with readyState 2
\* (part_000 176-185).
HeadersReceived ==
    /\ readyState = 1
    /\ \E st \in Statuses, block \in HeaderBlocks :
        /\ status' = st
        /\ responseHeaders' = ParseHeaderBlock(block)
    /\ readyState' = 2
    /\ UNCHANGED <<responseText, originText, nWrites, xhrFail, chunks,
                   lastSentLength, promise, result, response, callerRead>>
    /\ UNCHANGED pageState
    /\ UNCHANGED notStream

\* The origin writes a piece of the body; readyState becomes 3 (the
\* readystatechange listener does nothing for 3).
OriginWrite ==
    /\ readyState \in {2, 3}
    /\ status \notin NullBodyStatus
    /\ nWrites < MaxWrites
    /\ \E seg \in Segments :
        /\ responseText' = responseText \o seg
        /\ originText' = originText \o seg
    /\ nWrites' = nWrites + 1
    /\ readyState' = 3
    /\ UNCHANGED <<status, xhrFail, chunks, lastSentLength, responseHeaders,
                   promise, result, response, callerRead>>
    /\ UNCHANGED pageState
    /\ UNCHANGED notStream

\* A progress notification while the body is arriving.
Progress ==
    /\ readyState \in {2, 3}
    /\ LET after == OnProgress(responseText, chunks, lastSentLength)
       IN  /\ chunks' = after.chunks
           /\ lastSentLength' = after.lastSentLength
    /\ UNCHANGED <<readyState, status, responseText, originText, nWrites,
                   xhrFail, responseHeaders, promise, result, response,
                   callerRead>>
    /\ UNCHANGED pageState
    /\ UNCHANGED notStream

\* The readystatechange listener at readyState 4 (part_000 187-202), run on
\* the text and status the xhr shows at that moment.
ReadyStateDone(text, st) ==
    /\ chunks' = OnDone(text, chunks, lastSentLength)
    /\ result' = IF promise = "pending"
                 THEN Resolution(st, responseHeaders,
                                 OnDone(text, chunks, lastSentLength))
                 ELSE result
    /\ UNCHANGED <<lastSentLength, responseHeaders>>

\* The body ends: readyState 4, the listener resolves the promise.
Complete ==
    /\ readyState \in {2, 3}
    /\ readyState' = 4
    /\ ReadyStateDone(responseText, status)
    /\ promise' = Settle(promise, "resolved")
    /\ UNCHANGED <<status, responseText, originText, nWrites, xhrFail,
                   response, callerRead>>
    /\ UNCHANGED pageState
    /\ UNCHANGED notStream

\* The transport fails (error) or is aborted (abort): the request error
\* steps.  The readystatechange listener sees readyState 4 first and resolves
\* (part_000 187-202); the error/abort listener's reject (205-211) follows.
TransportFailure ==
    /\ readyState \in {1, 2, 3}
    /\ \E kind \in {"error", "abort"} : xhrFail' = kind
    /\ readyState' = 4
    /\ status' = 0
    /\ responseText' = <<>>
    /\ ReadyStateDone(<<>>, 0)
    /\ promise' = Settle(Settle(promise, "resolved"), "rejected")
    /\ UNCHANGED <<originText, nWrites, response, callerRead>>
    /\ UNCHANGED pageState
    /\ UNCHANGED notStream

\* part_000 234-248 and 53-59: page.evaluate has returned the resolution; the
\* chunks are enqueued into a ReadableStream and the Response is built.  A
\* throw of the constructor, like a rejected evaluate, ends in handleRequest's
\* catch and its 500 Response.
BuildStreamResponse ==
    /\ promise # "pending"
    /\ response = NoResponse
    /\ response' =
        IF promise = "rejected" \/ ResponseCtorThrows(result.status)
        THEN [kind |-> "handler500", status |-> 500, headers |-> <<>>,
              chunks |-> <<>>]
        ELSE [kind |-> "stream", status |-> result.status,
              headers |-> result.headers, chunks |-> result.chunks]
    /\ UNCHANGED <<readyState, status, responseText, originText, nWrites,
                   xhrFail, chunks, lastSentLength, responseHeaders, promise,
                   result, callerRead>>
    /\ UNCHANGED pageState
    /\ UNCHANGED notStream

\* index.ts 123-141: handleRequest has returned its Response; the finally
\* block of handleProxyRequest closes the page, and only a close that
\* resolved lets the Response reach the caller.
ClosePage ==
    /\ response # NoResponse
    /\ pageState = "open"
    /\ \E ok \in BOOLEAN : pageState' = IF ok THEN "closed" ELSE "closeFailed"
    /\ UNCHANGED <<readyState, status, responseText, originText, nWrites,
                   xhrFail, chunks, lastSentLength, responseHeaders, promise,
                   result, response, callerRead>>
    /\ UNCHANGED notStream

\* A body whose chunks are fetched from the page when they are read.
ReadableFromPage(resp) == IF pageState = "open" THEN resp.chunks ELSE <<>>

\* part_000 234-242: start() of the ReadableStream enqueues every chunk of
\* the evaluate result, an array in host memory, and closes the stream:
\* what can be read is that array, whatever happens to the page.
Readable(resp) == resp.chunks

\* test-unified-proxy.js 109-122: the caller, who has got the Response from
\* handleProxyRequest, reads the next chunk of the body.
CallerRead ==
    /\ response.kind = "stream"
    /\ pageState = "closed"
    /\ Len(callerRead) < Len(Readable(response))
    /\ callerRead' = Append(callerRead, Readable(response)[Len(callerRead) + 1])
    /\ UNCHANGED <<readyState, status, responseText, originText, nWrites,
                   xhrFail, chunks, lastSentLength, responseHeaders, promise,
                   result, response, pageState>>
    /\ UNCHANGED notStream

NextStream ==
    \/ HeadersReceived
    \/ OriginWrite
    \/ Progress
    \/ Complete
    \/ TransportFailure
    \/ BuildStreamResponse
    \/ ClosePage
    \/ CallerRead


(***************************************************************************)
(* Headers: the pre-clean of handleProxyRequest (src/src/index.ts 101-116) *)
(* and _filterUnsafeHeaders (src/unnamed/part_000 85-131)                  *)
(*                                                                         *)
(* A header name is <<prefix, rest>>, so that startsWith is computed; a    *)
(* key is a name with its casing (lower: as written in lower case, or      *)
(* not), so that toLowerCase and a case-sensitive lookup differ.           *)
(***************************************************************************)
N(rest) == <<"", rest>>
Key(name, isLower) == [name |-> name, lower |-> isLower]
ToLowerCase(k) == [k EXCEPT !.lower = TRUE]
StartsWith(k, prefix) == k.name[1] = prefix

\* index.ts 19
userAgent ==
    "Mozilla/5.0 (Windows NT 10.0; Win64; x64) AppleWebKit/537.36 (KHTML, like Gecko) Chrome/58.0.3029.110 Safari/537.3"

\* part_000 87-117
unsafeHeaders ==
    { N("accept-charset"), N("accept-encoding"),
      N("access-control-request-headers"), N("access-control-request-method"),
      N("connection"), N("content-length"), N("cookie"), N("cookie2"),
      N("date"), N("dnt"), N("expect"), N("host"), N("keep-alive"),
      N("origin"), N("referer"), N("te"), N("trailer"),
      N("transfer-encoding"), N("upgrade"), N("user-agent"), N("via"),
      <<"sec-", "ch-ua">>, <<"sec-", "ch-ua-mobile">>,
      <<"sec-", "ch-ua-platform">>, <<"sec-", "fetch-dest">>,
      <<"sec-", "fetch-mode">>, <<"sec-", "fetch-site">>,
      <<"sec-", "fetch-user">> }

\* index.ts 105-113: the keys removed with `delete headers[...]`.
preCleanDeleted ==
    { N("host"), N("connection"), N("content-length"), N("accept-encoding"),
      N("x-playwright-api-request"), N("x-direct-url"),
      <<"x-forwarded-", "for">>, <<"x-forwarded-", "port">>,
      <<"x-forwarded-", "proto">> }

\* Header names a request may carry: every name the code tests for, and
\* names it does not know.
HeaderNames ==
    unsafeHeaders \cup preCleanDeleted \cup
    { <<"sec-", "gpc">>, <<"proxy-", "authorization">>,
      <<"proxy-", "connection">>, <<"x-forwarded-", "host">>,
      <<"cf-", "ray">>, <<"cf-", "connecting-ip">>, N("cdn-loop"),
      N("accept"), N("content-type"), N("authorization"), N("x-custom") }

HeaderKeys == {Key(n, l) : n \in HeaderNames, l \in BOOLEAN}
HeaderValues == {"v1", "v2"}

\* filterUnsafeHeaders storing each kept entry under its lowercased key.
filterUnsafeHeadersLowerKeys(headers) ==
    LET safe == { key \in DOMAIN headers :
                    LET lowerKey == ToLowerCase(key)
                    IN  /\ lowerKey.name \notin unsafeHeaders
                        /\ ~StartsWith(lowerKey, "proxy-")
                        /\ ~StartsWith(lowerKey, "sec-") }
    IN  [lowerKey \in {ToLowerCase(key) : key \in safe} |->
            headers[CHOOSE key \in safe : ToLowerCase(key) = lowerKey]]

\* filterUnsafeHeaders with accept among the names it drops.
filterUnsafeHeadersAlsoAccept(headers) ==
    LET safe == { key \in DOMAIN headers :
                    LET lowerKey == ToLowerCase(key)
                    IN  /\ lowerKey.name \notin unsafeHeaders \cup {N("accept")}
                        /\ ~StartsWith(lowerKey, "proxy-")
                        /\ ~StartsWith(lowerKey, "sec-") }
    IN  [key \in safe |-> headers[key]]

\* part_000 85-131: keeps the entries whose lowercased key is neither in
\* unsafeHeaders nor starts with proxy- or sec-, under their own key.
filterUnsafeHeaders(headers) ==
    LET safe == { key \in DOMAIN headers :
                    LET lowerKey == ToLowerCase(key)
                    IN  /\ lowerKey.name \notin unsafeHeaders
                        /\ ~StartsWith(lowerKey, "proxy-")
                        /\ ~StartsWith(lowerKey, "sec-") }
    IN  [key \in safe |-> headers[key]]

\* index.ts 101: Object.fromEntries(c.req.raw.headers).  A Headers object
\* iterates its names in lower case.
FromEntries(raw) ==
    [k \in {ToLowerCase(k0) : k0 \in DOMAIN raw} |->
        raw[CHOOSE k0 \in DOMAIN raw : ToLowerCase(k0) = k]]

\* index.ts 101-116: the header map handleProxyRequest passes to
\* handler.handleRequest.  `delete headers['host']` removes the key spelled
\* exactly so.
PreClean(raw) ==
    LET headers == FromEntries(raw)
        kept == { k \in DOMAIN headers :
                    ~(k.lower /\ k.name \in preCleanDeleted) }
        ua == Key(N("user-agent"), TRUE)
    IN  [k \in kept \cup {ua} |-> IF k = ua THEN userAgent ELSE headers[k]]

\* A request names each header once (repeated lines are joined by the HTTP
\* layer before the code sees them).
OnePerName(raw) ==
    \A k1, k2 \in DOMAIN raw : k1.name = k2.name => k1 = k2

InitHeaders ==
    /\ hPhase = "inbound"
    /\ \E k1, k2 \in HeaderKeys, v1, v2 \in HeaderValues :
        hIn = (k1 :> v1) @@ (k2 :> v2)
    /\ hOut = <<>>

\* index.ts 101-116
PreCleanHeaders ==
    /\ hPhase = "inbound"
    /\ OnePerName(hIn)
    /\ hOut' = PreClean(hIn)
    /\ hPhase' = "cleaned"
    /\ UNCHANGED hIn
    /\ UNCHANGED notHeaders

\* part_000 141 / 259: the executor filters the map it was given and hands
\* the outcome to the in-page transport.
FilterForTransport ==
    /\ hPhase = "cleaned"
    /\ hOut' = filterUnsafeHeaders(hOut)
    /\ hPhase' = "filtered"
    /\ UNCHANGED hIn
    /\ UNCHANGED notHeaders

\* _filterUnsafeHeaders applied to a map as given, keys in any casing.
FilterDirect ==
    /\ hPhase = "inbound"
    /\ hOut' = filterUnsafeHeaders(hIn)
    /\ hPhase' = "direct"
    /\ UNCHANGED hIn
    /\ UNCHANGED notHeaders

NextHeaders ==
    \/ PreCleanHeaders
    \/ FilterForTransport
    \/ FilterDirect

(***************************************************************************)
(* Routing: the route table of src/src/index.ts (81, 147, 217, 234)        *)
(***************************************************************************)
Methods == {"GET", "POST", "PUT", "DELETE"}
Paths == {"/", "/genspark", "/public/app.js", "/v1/chat"}
\* c.req.query('url'): undefined, '' or a target
UrlParams == {"absent", "empty", "given"}

InitRoute ==
    /\ rq \in [method : Methods, path : Paths, url : UrlParams,
               fileExists : BOOLEAN, indexReadable : BOOLEAN]
    /\ routeResp = NoResponse

\* index.ts 85-88: `if (!url)`, then the relay proper.
ProxyEntry(req) ==
    IF req.url \in {"absent", "empty"}
    THEN [kind |-> "text", status |-> 400, body |-> "Missing url parameter"]
    ELSE [kind |-> "relay"]

\* index.ts 81: serveStatic answers when the file exists, else calls next().
StaticServes(req) == req.path = "/public/app.js" /\ req.fileExists

\* Route with the root route registered for every method.
RouteRootAnyMethod(req) ==
    IF StaticServes(req)
        THEN [kind |-> "static", status |-> 200]
    ELSE IF req.method = "GET" /\ req.path = "/genspark"
        THEN [kind |-> "genspark"]
    ELSE IF req.path = "/"
        THEN IF req.url = "given"
             THEN ProxyEntry(req)
             ELSE IF req.indexReadable
                  THEN [kind |-> "html", status |-> 200]
                  ELSE [kind |-> "text", status |-> 500,
                        body |-> "cannot read index.html"]
    ELSE ProxyEntry(req)

\* index.ts 81-234: the first matching route answers.
Route(req) ==
    IF StaticServes(req)
        THEN [kind |-> "static", status |-> 200]
    ELSE IF req.method = "GET" /\ req.path = "/genspark"
        THEN [kind |-> "genspark"]
    ELSE IF req.method = "GET" /\ req.path = "/"
        THEN IF req.url = "given"
             THEN ProxyEntry(req)
             ELSE IF req.indexReadable
                  THEN [kind |-> "html", status |-> 200]
                  ELSE [kind |-> "text", status |-> 500,
                        body |-> "cannot read index.html"]
    ELSE ProxyEntry(req)

Dispatch ==
    /\ routeResp = NoResponse
    /\ routeResp' = Route(rq)
    /\ UNCHANGED rq
    /\ UNCHANGED notRoute

NextRoute == Dispatch

(***************************************************************************)
(* Classification: _isStreamRequest (src/unnamed/part_000 66-79)           *)
(*                                                                         *)
(* A string is a sequence of atoms and String.prototype.includes is        *)
(* computed as a substring search, so that 'streaming' contains 'stream'   *)
(* and '//streamer' contains '/stream'.                                    *)
(***************************************************************************)
\* String.prototype.includes
Includes(s, sub) ==
    \E i \in 0..(Len(s) - Len(sub)) : SubSeq(s, i + 1, i + Len(sub)) = sub

Scheme == <<"https", ":", "/", "/">>
Hosts == { <<"api">>, <<"generate">>, <<"stream", "er">> }
UrlPaths ==
    { <<"/", "x">>, <<"/", "stream">>, <<"/", "stream", "ing">>,
      <<"/", "x", "stream">>, <<"/", "generate">>,
      <<"/", "chat", "/", "completions">>, <<"/", "v1", "/", "completions">> }
Queries == { <<>>, <<"?", "q", "=", "stream">>, <<"?", "q", "=", "generate">> }

\* The url string the handler is given.
UrlString(u) == Scheme \o u.host \o u.path \o u.query

AcceptValues ==
    { <<"*/*">>, <<"text/event-stream">>,
      <<"application/json", ",", "text/event-stream">>,
      <<"application/stream", "+json">> }
ContentTypeValues ==
    { <<"application/json">>, <<"application/json", ";", "charset=utf-8">>,
      <<"text/plain">> }

\* Header maps for classification: accept and content-type, each absent
\* or present under a lower-case or a mixed-case key.
ClassifyHeaderMaps ==
    LET aMaps == { <<>> } \cup
                 { Key(N("accept"), l) :> v : l \in BOOLEAN, v \in AcceptValues }
        cMaps == { <<>> } \cup
                 { Key(N("content-type"), l) :> v :
                     l \in BOOLEAN, v \in ContentTypeValues }
    IN  { a @@ c : a \in aMaps, c \in cMaps }

\* Headers sent along with them that _filterUnsafeHeaders drops, or none.
DroppedHeaderMaps ==
    { <<>>,
      Key(N("cookie"), TRUE) :> "v1",
      Key(N("accept-charset"), FALSE) :> "v1",
      Key(<<"sec-", "fetch-mode">>, TRUE) :> "v1" }

\* The header maps a request under classification may carry.
ClassifyInputs == { m @@ d : m \in ClassifyHeaderMaps, d \in DroppedHeaderMaps }

\* headers['name'] || '': the value under the key spelled exactly so.
Lookup(headers, name) ==
    IF Key(name, TRUE) \in DOMAIN headers THEN headers[Key(name, TRUE)] ELSE <<>>

\* part_000 66-79
isStreamRequest(headers, url) ==
    LET accept == Lookup(headers, N("accept"))
        contentType == Lookup(headers, N("content-type"))
    IN  IF \/ Includes(accept, <<"text/event-stream">>)
           \/ Includes(accept, <<"application/stream">>)
           \/ Includes(url, <<"/", "stream">>)
           \/ Includes(url, <<"chat", "/", "completions">>)
           \/ Includes(url, <<"v1", "/", "completions">>)
           \/ Includes(url, <<"generate">>)
           \/ Includes(url, <<"stream", "ing">>)
           \/ ( /\ Includes(contentType, <<"application/json">>)
                /\ Includes(url, <<"stream">>) )
        THEN "stream" ELSE "buffered"

InitClassify ==
    /\ cHeaders \in ClassifyInputs
    /\ cUrl \in [host : Hosts, path : UrlPaths, query : Queries]
    /\ cRelayed = "none"
    /\ cCalls = <<>>
    /\ cRecased = "none"
    /\ cSanitized = "none"

\* index.ts 101-123 and part_000 43: the relay builds the header map from
\* the inbound Headers object and handleRequest classifies the request.
ClassifyRelayed ==
    /\ cRelayed = "none"
    /\ cRelayed' = isStreamRequest(PreClean(cHeaders), UrlString(cUrl))
    /\ UNCHANGED <<cHeaders, cUrl, cCalls, cRecased, cSanitized>>
    /\ UNCHANGED notClassify

\* _isStreamRequest called on the map as given.
ClassifyDirect ==
    /\ Len(cCalls) < MaxCalls
    /\ cCalls' = Append(cCalls, isStreamRequest(cHeaders, UrlString(cUrl)))
    /\ UNCHANGED <<cHeaders, cUrl, cRelayed, cRecased, cSanitized>>
    /\ UNCHANGED notClassify

\* _isStreamRequest called on the same map with the casing of some keys
\* changed.
ClassifyRecased ==
    /\ cRecased = "none"
    /\ \E flip \in SUBSET DOMAIN cHeaders :
        LET Recase(k) == IF k \in flip THEN [k EXCEPT !.lower = ~@] ELSE k
            recased == [k2 \in {Recase(k) : k \in DOMAIN cHeaders} |->
                          cHeaders[CHOOSE k \in DOMAIN cHeaders : Recase(k) = k2]]
        IN  cRecased' = isStreamRequest(recased, UrlString(cUrl))
    /\ UNCHANGED <<cHeaders, cUrl, cRelayed, cCalls, cSanitized>>
    /\ UNCHANGED notClassify

\* part_000 66-79 after 85-131: _isStreamRequest called on the map
\* _filterUnsafeHeaders returns for the given one.
ClassifySanitized ==
    /\ cSanitized = "none"
    /\ cSanitized' = isStreamRequest(filterUnsafeHeaders(cHeaders),
                                     UrlString(cUrl))
    /\ UNCHANGED <<cHeaders, cUrl, cRelayed, cCalls, cRecased>>
    /\ UNCHANGED notClassify

NextClassify ==
    \/ ClassifyRelayed
    \/ ClassifyDirect
    \/ ClassifyRecased
    \/ ClassifySanitized

(***************************************************************************)
(* Buffered executor: _handleRegularRequest (src/unnamed/part_000 255-311) *)
(*                                                                         *)
(* The machine starts when page.evaluate has called fetch().  A body is a  *)
(* sequence of byte values; a header map is keyed like the request maps.   *)
(***************************************************************************)
Bytes == {0, 65, 255}

RECURSIVE ByteSeqs(_)
ByteSeqs(n) ==
    IF n = 0 THEN { <<>> }
    ELSE ByteSeqs(n - 1) \cup
         { Append(b, x) : b \in { c \in ByteSeqs(n - 1) : Len(c) = n - 1 },
                          x \in Bytes }

\* Statuses of the origin: with a body, without one, an error with a body.
OriginStatuses == {200, 204, 304, 404}
OriginStatusTexts == {"", "Done"}

\* Header blocks of the origin, names in the casing the origin wrote.
OriginHeaderMaps ==
    LET ct == Key(N("content-type"), FALSE) :> "application/json"
        ce == Key(N("content-encoding"), FALSE) :> "gzip"
        cl == Key(N("content-length"), TRUE) :> "17"
    IN  { <<>>, ct, ct @@ cl, ct @@ ce @@ cl }

\* part_000 282-285: response.headers.forEach copies every header into a
\* plain object; a Headers object yields its names in lower case.
SerializeHeaders(hdrs) ==
    [k \in {ToLowerCase(k0) : k0 \in DOMAIN hdrs} |->
        hdrs[CHOOSE k0 \in DOMAIN hdrs : ToLowerCase(k0) = k]]

\* The body read as text and encoded again: a byte that is not valid UTF-8
\* becomes U+FFFD, three bytes.
ArrayFromText(u8) ==
    Flatten([i \in 1..Len(u8) |->
                IF u8[i] < 128 THEN <<u8[i]>> ELSE <<239, 191, 189>>])

\* part_000 288-295: Array.from(new Uint8Array(arrayBuffer)): one number per
\* byte.
ArrayFrom(u8) == [i \in 1..Len(u8) |-> u8[i]]

\* part_000 305: new Uint8Array(array) stores each number modulo 256.
ToUint8Array(arr) == [i \in 1..Len(arr) |-> arr[i] % 256]

Rejected == [kind |-> "rejected"]

\* part_000 53-59: the 500 Response of handleRequest's catch.
Handler500 ==
    [kind |-> "handler500", status |-> 500, statusText |-> "",
     headers |-> (Key(N("content-type"), TRUE) :> "text/plain"),
     body |-> <<>>]

InitBuffered ==
    /\ bOrigin \in { o \in [status : OriginStatuses,
                           statusText : OriginStatusTexts,
                           headers : OriginHeaderMaps,
                           body : ByteSeqs(MaxBody)] :
                       o.status \in NullBodyStatus => o.body = <<>> }
    /\ bPc = "fetching"
    /\ bReceived = <<>>
    /\ bResult = NoResult
    /\ bResponse = NoResponse

\* part_000 279: fetch() settles: it resolves once the response head has
\* arrived, or rejects (network failure, malformed url).
FetchSettled ==
    /\ bPc = "fetching"
    /\ \E ok \in BOOLEAN :
        IF ok
        THEN /\ bPc' = "reading"
             /\ UNCHANGED bResult
        ELSE /\ bPc' = "evaluated"
             /\ bResult' = Rejected
    /\ UNCHANGED <<bOrigin, bReceived, bResponse>>
    /\ UNCHANGED notBuffered

\* The next byte of the body arrives while response.arrayBuffer() is pending.
BodyByteArrives ==
    /\ bPc = "reading"
    /\ Len(bReceived) < Len(bOrigin.body)
    /\ bReceived' = Append(bReceived, bOrigin.body[Len(bReceived) + 1])
    /\ UNCHANGED <<bOrigin, bPc, bResult, bResponse>>
    /\ UNCHANGED notBuffered

\* part_000 288: the transfer breaks before the body is complete;
\* response.arrayBuffer() rejects and with it page.evaluate.
BodyReadFails ==
    /\ bPc = "reading"
    /\ Len(bReceived) < Len(bOrigin.body)
    /\ bPc' = "evaluated"
    /\ bResult' = Rejected
    /\ UNCHANGED <<bOrigin, bReceived, bResponse>>
    /\ UNCHANGED notBuffered

\* part_000 281-296: the body is complete; the page returns the serialized
\* response.
ArrayBufferSettled ==
    /\ bPc = "reading"
    /\ bReceived = bOrigin.body
    /\ bPc' = "evaluated"
    /\ bResult' = [kind |-> "result",
                   status |-> bOrigin.status,
                   statusText |-> bOrigin.statusText,
                   headers |-> SerializeHeaders(bOrigin.headers),
                   body |-> ArrayFrom(bReceived)]
    /\ UNCHANGED <<bOrigin, bReceived, bResponse>>
    /\ UNCHANGED notBuffered

\* part_000 304-310 and 53-59: the Response is built from the result; a
\* rejected evaluate or a throwing constructor ends in handleRequest's catch.
BuildRegularResponse ==
    /\ bPc = "evaluated"
    /\ bResponse' =
        IF bResult = Rejected THEN Handler500
        ELSE IF ResponseCtorThrows(bResult.status) THEN Handler500
        ELSE [kind |-> "regular",
              status |-> bResult.status,
              statusText |-> bResult.statusText,
              headers |-> bResult.headers,
              body |-> ToUint8Array(bResult.body)]
    /\ bPc' = "done"
    /\ UNCHANGED <<bOrigin, bReceived, bResult>>
    /\ UNCHANGED notBuffered

NextBuffered ==
    \/ FetchSettled
    \/ BodyByteArrives
    \/ BodyReadFails
    \/ ArrayBufferSettled
    \/ BuildRegularResponse

(***************************************************************************)
(* Token endpoint: app.get('/genspark') and initGensparkContext            *)
(* (src/src/index.ts 45-77, 147-212)                                       *)
(*                                                                         *)
(* The machine shares the module variable `browser` with the relay.  A     *)
(* context is named after the request whose newContext() created it.  An   *)
(* operation on a context that has been closed can only fail.              *)
(***************************************************************************)
GReq == 1..NumGReq
Threw == [kind |-> "threw"]

InitGenspark ==
    /\ gensparkContext = 0
    /\ ctxOpen = {}
    /\ gpc = [g \in GReq |-> "idle"]
    /\ gCookies = [g \in GReq |-> FALSE]
    /\ gCtx = [g \in GReq |-> 0]
    /\ gFailedAt = [g \in GReq |-> "none"]
    /\ gToken = [g \in GReq |-> "none"]
    /\ gDecided = [g \in GReq |-> "none"]
    /\ gOut = [g \in GReq |-> NoResponse]
    /\ jar = [c \in 1..NumGReq |-> 0]

\* An await outside try rejects (or a call on null throws): the exception
\* leaves the route handler.
GThrow(g, at) ==
    /\ gpc' = [gpc EXCEPT ![g] = "done"]
    /\ gFailedAt' = [gFailedAt EXCEPT ![g] = at]
    /\ gOut' = [gOut EXCEPT ![g] = Threw]

\* index.ts 168: gensparkContext.newPage() is called on the module variable.
CallNewPage(g, ctx) ==
    IF ctx = 0
    THEN /\ GThrow(g, "newPage")
         /\ UNCHANGED gCtx
    ELSE /\ gpc' = [gpc EXCEPT ![g] = "newPage"]
         /\ gCtx' = [gCtx EXCEPT ![g] = ctx]
         /\ UNCHANGED <<gFailedAt, gOut>>

\* index.ts 161-168: initGensparkContext has returned `ctx`, which the
\* handler stores in gensparkContext; with cookies it calls clearCookies,
\* otherwise newPage.
AfterContext(g, ctx) ==
    IF gCookies[g]
    THEN IF ctx = 0
         THEN /\ GThrow(g, "cookies")
              /\ UNCHANGED gCtx
         ELSE /\ gpc' = [gpc EXCEPT ![g] = "clearCookies"]
              /\ gCtx' = [gCtx EXCEPT ![g] = ctx]
              /\ UNCHANGED <<gFailedAt, gOut>>
    ELSE CallNewPage(g, ctx)

\* index.ts 46-49 and 76: initBrowser has returned; `if (!gensparkContext)`
\* either calls browser.newContext or returns the stored context.
AfterEngine(g) ==
    IF gensparkContext = 0
    THEN /\ gpc' = [gpc EXCEPT ![g] = "newContext"]
         /\ UNCHANGED <<gCtx, gFailedAt, gOut>>
    ELSE AfterContext(g, gensparkContext)

\* index.ts 147-161 with 45-46 and 21-26: the synchronous prefix of the
\* route handler: the cookies are parsed, initGensparkContext calls
\* initBrowser.
GensparkRequest(g) ==
    /\ gpc[g] = "idle"
    /\ \E cookies \in BOOLEAN :
        /\ gCookies' = [gCookies EXCEPT ![g] = cookies]
        /\ IF browser = 0
           THEN /\ launches' = launches + 1
                /\ gpc' = [gpc EXCEPT ![g] = "launching"]
                /\ UNCHANGED <<gCtx, gFailedAt, gOut>>
           ELSE /\ UNCHANGED launches
                /\ IF gensparkContext = 0
                   THEN /\ gpc' = [gpc EXCEPT ![g] = "newContext"]
                        /\ UNCHANGED <<gCtx, gFailedAt, gOut>>
                   ELSE IF cookies
                   THEN /\ gpc' = [gpc EXCEPT ![g] = "clearCookies"]
                        /\ gCtx' = [gCtx EXCEPT ![g] = gensparkContext]
                        /\ UNCHANGED <<gFailedAt, gOut>>
                   ELSE CallNewPage(g, gensparkContext)
    /\ UNCHANGED <<browser, engines, gensparkContext, ctxOpen, gToken,
                   gDecided>>
    /\ UNCHANGED jar
    /\ UNCHANGED notGenspark

\* index.ts 26-41: chromium.launch() settles inside initBrowser.
GLaunchSettled(g) ==
    /\ gpc[g] = "launching"
    /\ \E ok \in BOOLEAN :
        IF ok
        THEN /\ engines' = engines \cup {g}
             /\ browser' = g
             /\ AfterEngine(g)
        ELSE /\ GThrow(g, "launch")
             /\ UNCHANGED <<browser, engines, gCtx>>
    /\ UNCHANGED <<launches, gensparkContext, ctxOpen, gCookies, gToken,
                   gDecided>>
    /\ UNCHANGED jar
    /\ UNCHANGED notGenspark

\* index.ts 49-64: browser.newContext() settles; the context is stored in
\* gensparkContext and addInitScript is called on it.
NewContextSettled(g) ==
    /\ gpc[g] = "newContext"
    /\ \E ok \in BOOLEAN :
        IF ok
        THEN /\ gensparkContext' = g
             /\ ctxOpen' = ctxOpen \cup {g}
             /\ jar' = [jar EXCEPT ![g] = 0]
             /\ gpc' = [gpc EXCEPT ![g] = "addInitScript"]
             /\ gCtx' = [gCtx EXCEPT ![g] = g]
             /\ UNCHANGED <<gFailedAt, gOut>>
        ELSE /\ GThrow(g, "newContext")
             /\ UNCHANGED <<gensparkContext, ctxOpen, gCtx, jar>>
    /\ UNCHANGED <<browser, launches, engines, gCookies, gToken, gDecided>>
    /\ UNCHANGED notGenspark

\* index.ts 67-76 and 161: addInitScript settles; initGensparkContext
\* returns what gensparkContext holds by now.
AddInitScriptSettled(g) ==
    /\ gpc[g] = "addInitScript"
    /\ \E ok \in {b \in BOOLEAN : b => gCtx[g] \in ctxOpen} :
        IF ok
        THEN AfterContext(g, gensparkContext)
        ELSE /\ GThrow(g, "addInitScript")
             /\ UNCHANGED gCtx
    /\ UNCHANGED <<browser, launches, engines, gensparkContext, ctxOpen,
                   gCookies, gToken, gDecided>>
    /\ UNCHANGED jar
    /\ UNCHANGED notGenspark

\* index.ts 165-166: clearCookies settles, having emptied the jar of the
\* context it was called on; addCookies is called on gensparkContext.
ClearCookiesSettled(g) ==
    /\ gpc[g] = "clearCookies"
    /\ \E ok \in {b \in BOOLEAN : b => gCtx[g] \in ctxOpen} :
        /\ jar' = IF ok THEN [jar EXCEPT ![gCtx[g]] = 0] ELSE jar
        /\ IF ok /\ gensparkContext # 0
           THEN /\ gpc' = [gpc EXCEPT ![g] = "addCookies"]
                /\ gCtx' = [gCtx EXCEPT ![g] = gensparkContext]
                /\ UNCHANGED <<gFailedAt, gOut>>
           ELSE /\ GThrow(g, "cookies")
                /\ UNCHANGED gCtx
    /\ UNCHANGED <<browser, launches, engines, gensparkContext, ctxOpen,
                   gCookies, gToken, gDecided>>
    /\ UNCHANGED notGenspark

\* index.ts 166-168: addCookies settles, having put the request's cookies
\* into the jar of the context it was called on; newPage is called.
AddCookiesSettled(g) ==
    /\ gpc[g] = "addCookies"
    /\ \E ok \in {b \in BOOLEAN : b => gCtx[g] \in ctxOpen} :
        IF ok
        THEN /\ jar' = [jar EXCEPT ![gCtx[g]] = g]
             /\ CallNewPage(g, gensparkContext)
        ELSE /\ GThrow(g, "cookies")
             /\ UNCHANGED <<gCtx, jar>>
    /\ UNCHANGED <<browser, launches, engines, gensparkContext, ctxOpen,
                   gCookies, gToken, gDecided>>
    /\ UNCHANGED notGenspark

\* index.ts 168-174: newPage settles (outside try); inside try goto is
\* called.
GNewPageSettled(g) ==
    /\ gpc[g] = "newPage"
    /\ \E ok \in {b \in BOOLEAN : b => gCtx[g] \in ctxOpen} :
        IF ok
        THEN /\ gpc' = [gpc EXCEPT ![g] = "goto"]
             /\ UNCHANGED <<gFailedAt, gOut>>
        ELSE GThrow(g, "newPage")
    /\ UNCHANGED <<browser, launches, engines, gensparkContext, ctxOpen,
                   gCookies, gCtx, gToken, gDecided>>
    /\ UNCHANGED jar
    /\ UNCHANGED notGenspark

\* index.ts 207-209: the finally block calls gensparkPage.close(); what the
\* handler is about to return is `code`.
EnterFinally(g, code) ==
    /\ gpc' = [gpc EXCEPT ![g] = "closingPage"]
    /\ gDecided' = [gDecided EXCEPT ![g] = code]

\* index.ts 171-174 and 200-206: goto settles.  A rejection (navigation
\* error, timeout) enters the catch block, which closes the context the
\* module variable holds, if any.
GotoSettled(g) ==
    /\ gpc[g] = "goto"
    /\ \E ok \in {b \in BOOLEAN : b => gCtx[g] \in ctxOpen} :
        IF ok
        THEN /\ gpc' = [gpc EXCEPT ![g] = "evaluate"]
             /\ UNCHANGED <<gFailedAt, gCtx, gDecided>>
        ELSE /\ gFailedAt' = [gFailedAt EXCEPT ![g] = "goto"]
             /\ IF gensparkContext # 0
                THEN /\ gpc' = [gpc EXCEPT ![g] = "closingContext"]
                     /\ gCtx' = [gCtx EXCEPT ![g] = gensparkContext]
                     /\ UNCHANGED gDecided
                ELSE /\ EnterFinally(g, 500)
                     /\ UNCHANGED gCtx
    /\ UNCHANGED <<browser, launches, engines, gensparkContext, ctxOpen,
                   gCookies, gToken, gOut>>
    /\ UNCHANGED jar
    /\ UNCHANGED notGenspark

\* index.ts 203-211: gensparkContext.close() settles, a rejection is
\* swallowed; the reference is cleared and the finally block runs.
ContextCloseSettled(g) ==
    /\ gpc[g] = "closingContext"
    /\ \E ok \in BOOLEAN :
        ctxOpen' = IF ok THEN ctxOpen \ {gCtx[g]} ELSE ctxOpen
    /\ gensparkContext' = 0
    /\ EnterFinally(g, 500)
    /\ UNCHANGED <<browser, launches, engines, gCookies, gCtx, gFailedAt,
                   gToken, gOut>>
    /\ UNCHANGED jar
    /\ UNCHANGED notGenspark

\* index.ts 176-198: page.evaluate of the token script settles.  Its
\* rejection (grecaptcha error, the 10 s timeout) is absorbed by the
\* .catch at 194, whose value, the c.json(...) Response, becomes `token`;
\* the handler returns code 200 with that token.
EvaluateSettled(g) ==
    /\ gpc[g] = "evaluate"
    /\ \E ok \in {b \in BOOLEAN : b => gCtx[g] \in ctxOpen} :
        IF ok
        THEN /\ gToken' = [gToken EXCEPT ![g] = "token"]
             /\ UNCHANGED gFailedAt
        ELSE /\ gToken' = [gToken EXCEPT ![g] = "responseObject"]
             /\ gFailedAt' = [gFailedAt EXCEPT ![g] = "evaluate"]
    /\ EnterFinally(g, 200)
    /\ UNCHANGED <<browser, launches, engines, gensparkContext, ctxOpen,
                   gCookies, gCtx, gOut>>
    /\ UNCHANGED jar
    /\ UNCHANGED notGenspark

\* index.ts 198, 208-211: gensparkPage.close() settles, a rejection is
\* swallowed; the handler returns its JSON.
GPageCloseSettled(g) ==
    /\ gpc[g] = "closingPage"
    /\ gpc' = [gpc EXCEPT ![g] = "done"]
    /\ gOut' = [gOut EXCEPT ![g] =
                  IF gDecided[g] = 200
                  THEN [kind |-> "json", code |-> 200, token |-> gToken[g]]
                  ELSE [kind |-> "json", code |-> 500, token |-> "none"]]
    /\ UNCHANGED <<browser, launches, engines, gensparkContext, ctxOpen,
                   gCookies, gCtx, gFailedAt, gToken, gDecided>>
    /\ UNCHANGED jar
    /\ UNCHANGED notGenspark

NextGenspark ==
    \E g \in GReq :
        \/ GensparkRequest(g)
        \/ GLaunchSettled(g)
        \/ NewContextSettled(g)
        \/ AddInitScriptSettled(g)
        \/ ClearCookiesSettled(g)
        \/ AddCookiesSettled(g)
        \/ GNewPageSettled(g)
        \/ GotoSettled(g)
        \/ EvaluateSettled(g)
        \/ ContextCloseSettled(g)
        \/ GPageCloseSettled(g)

(***************************************************************************)
(* Shutdown: cleanup (src/src/index.ts 237-252)                            *)
(*                                                                         *)
(* SIGINT and SIGTERM both run cleanup, and a signal can be delivered      *)
(* again while an earlier cleanup is waiting.  The machine starts from the *)
(* module state a signal can find: nothing launched, an engine, or an      *)
(* engine and a credential context.  index.ts holds two servers, the       *)
(* current one (1-263) and an earlier one (264-463) without the credential *)
(* context; `variant` says which one is running.                           *)
(***************************************************************************)
Deliveries == 1..NumSignals

InitShutdown ==
    /\ variant \in {"current", "legacy"}
    /\ \E e, c \in {0, 1} :
        /\ c = 1 => (e = 1 /\ variant = "current")
        /\ browser = e
        /\ engines = IF e = 1 THEN {1} ELSE {}
        /\ gensparkContext = c
        /\ ctxOpen = IF c = 1 THEN {1} ELSE {}
    /\ spc = [s \in Deliveries |-> "idle"]
    /\ sCtx = [s \in Deliveries |-> 0]
    /\ sErr = [s \in Deliveries |-> {}]
    /\ exited = FALSE

\* index.ts 243-247: `if (browser)` calls browser.close(), else
\* process.exit(0).
CleanupEngine(s) ==
    IF browser # 0
    THEN /\ spc' = [spc EXCEPT ![s] = "closingBrowser"]
         /\ UNCHANGED exited
    ELSE /\ spc' = [spc EXCEPT ![s] = "exited"]
         /\ exited' = TRUE

\* index.ts 237-252: a signal arrives and cleanup starts.
Cleanup(s) ==
    /\ variant = "current"
    /\ ~exited
    /\ spc[s] = "idle"
    /\ IF gensparkContext # 0
       THEN /\ spc' = [spc EXCEPT ![s] = "closingContext"]
            /\ sCtx' = [sCtx EXCEPT ![s] = gensparkContext]
            /\ UNCHANGED exited
       ELSE /\ CleanupEngine(s)
            /\ UNCHANGED sCtx
    /\ UNCHANGED <<browser, engines, gensparkContext, ctxOpen, sErr, variant>>
    /\ UNCHANGED notShutdown

\* index.ts 239-246: gensparkContext.close() settles in cleanup, a
\* rejection is swallowed; the reference is cleared.
CleanupContextClosed(s) ==
    /\ variant = "current"
    /\ ~exited
    /\ spc[s] = "closingContext"
    /\ \E ok \in BOOLEAN :
        /\ ctxOpen' = IF ok THEN ctxOpen \ {sCtx[s]} ELSE ctxOpen
        /\ sErr' = [sErr EXCEPT ![s] = IF ok THEN @ ELSE @ \cup {"context"}]
    /\ gensparkContext' = 0
    /\ CleanupEngine(s)
    /\ UNCHANGED <<browser, engines, sCtx, variant>>
    /\ UNCHANGED notShutdown

\* index.ts 244-247: browser.close() settles in cleanup: the engine the
\* module variable holds is closed, or the rejection is swallowed; the
\* reference is cleared and process.exit(0) is called.
CleanupBrowserClosed(s) ==
    /\ variant = "current"
    /\ ~exited
    /\ spc[s] = "closingBrowser"
    /\ \E ok \in BOOLEAN :
        /\ sErr' = [sErr EXCEPT ![s] = IF ok THEN @ ELSE @ \cup {"browser"}]
        /\ engines' = IF ok THEN engines \ {browser} ELSE engines
    /\ browser' = 0
    /\ spc' = [spc EXCEPT ![s] = "exited"]
    /\ exited' = TRUE
    /\ UNCHANGED <<gensparkContext, ctxOpen, sCtx, variant>>
    /\ UNCHANGED notShutdown

\* index.ts 446-451: cleanup of the earlier server variant starts:
\* `if (browser) await browser.close()`, then process.exit(0).
LegacyCleanup(s) ==
    /\ variant = "legacy"
    /\ ~exited
    /\ spc[s] = "idle"
    /\ CleanupEngine(s)
    /\ UNCHANGED <<browser, engines, gensparkContext, ctxOpen, sCtx, sErr,
                   variant>>
    /\ UNCHANGED notShutdown

\* index.ts 448-450: browser.close() settles in the earlier variant's
\* cleanup.  It has no .catch: a rejection leaves cleanup as a rejected
\* promise and process.exit(0) is not reached.
LegacyCleanupBrowserClosed(s) ==
    /\ variant = "legacy"
    /\ ~exited
    /\ spc[s] = "closingBrowser"
    /\ \E ok \in BOOLEAN :
        IF ok
        THEN /\ spc' = [spc EXCEPT ![s] = "exited"]
             /\ exited' = TRUE
             /\ engines' = engines \ {browser}
             /\ UNCHANGED sErr
        ELSE /\ spc' = [spc EXCEPT ![s] = "threw"]
             /\ sErr' = [sErr EXCEPT ![s] = @ \cup {"browser"}]
             /\ UNCHANGED <<exited, engines>>
    /\ UNCHANGED <<browser, gensparkContext, ctxOpen, sCtx, variant>>
    /\ UNCHANGED notShutdown

NextShutdown ==
    \E s \in Deliveries :
        \/ Cleanup(s)
        \/ CleanupContextClosed(s)
        \/ CleanupBrowserClosed(s)
        \/ LegacyCleanup(s)
        \/ LegacyCleanupBrowserClosed(s)

(***************************************************************************)
(* Lifecycle: proxied requests and signals in one process (src/src/index.ts*)
(* 84-142 and 237-252)                                                     *)
(*                                                                         *)
(* The process starts with no engine; requests run handleProxyRequest      *)
(* until process.exit, and SIGINT or SIGTERM can arrive at any moment.     *)
(***************************************************************************)
\* A request handler runs a step: the process has not exited.
LiveRelay == ~exited /\ NextRelay

\* A signal is delivered or a close() awaited by cleanup settles.
LiveCleanup ==
    \E s \in Deliveries :
        \/ Cleanup(s)
        \/ CleanupBrowserClosed(s)

NextLifecycle ==
    \/ LiveRelay
    \/ LiveCleanup

(***************************************************************************)
(* Engine acquisition: initBrowser (src/src/index.ts 16-42), called by     *)
(* handleProxyRequest (92) and initGensparkContext (46)                    *)
(***************************************************************************)
Calls == 1..NumCalls

InitEngine ==
    /\ callPc = [c \in Calls |-> "idle"]
    /\ callRet = [c \in Calls |-> 0]
    /\ callSeen = [c \in Calls |-> {}]
    /\ callLaunched = [c \in Calls |-> FALSE]
    /\ returnedEngines = {}

\* index.ts 21-26 and 41: initBrowser is called: `if (!browser)` starts
\* chromium.launch, otherwise the stored engine is returned.
InitBrowserCall(c) ==
    /\ callPc[c] = "idle"
    /\ callSeen' = [callSeen EXCEPT ![c] = returnedEngines]
    /\ IF browser = 0
       THEN /\ launches' = launches + 1
            /\ callLaunched' = [callLaunched EXCEPT ![c] = TRUE]
            /\ callPc' = [callPc EXCEPT ![c] = "launching"]
            /\ UNCHANGED <<callRet, returnedEngines>>
       ELSE /\ callRet' = [callRet EXCEPT ![c] = browser]
            /\ callPc' = [callPc EXCEPT ![c] = "returned"]
            /\ returnedEngines' = returnedEngines \cup {browser}
            /\ UNCHANGED <<launches, callLaunched>>
    /\ UNCHANGED <<browser, engines>>
    /\ UNCHANGED notEngine

\* index.ts 26-41: chromium.launch() settles: the engine is assigned to
\* `browser` and returned, or the rejection leaves initBrowser.
InitBrowserLaunchSettled(c) ==
    /\ callPc[c] = "launching"
    /\ \E ok \in BOOLEAN :
        IF ok
        THEN /\ engines' = engines \cup {c}
             /\ browser' = c
             /\ callRet' = [callRet EXCEPT ![c] = c]
             /\ callPc' = [callPc EXCEPT ![c] = "returned"]
             /\ returnedEngines' = returnedEngines \cup {c}
        ELSE /\ callPc' = [callPc EXCEPT ![c] = "rejected"]
             /\ UNCHANGED <<browser, engines, callRet, returnedEngines>>
    /\ UNCHANGED <<launches, callSeen, callLaunched>>
    /\ UNCHANGED notEngine

NextEngine ==
    \E c \in Calls :
        \/ InitBrowserCall(c)
        \/ InitBrowserLaunchSettled(c)

(***************************************************************************)
(* Page release: the finally block of handleProxyRequest (src/src/index.ts *)
(* 137-141) with cleanup (src/unnamed/part_000 334-337), and page.close()  *)
(* of the earlier server (index.ts 386, 393)                               *)
(*                                                                         *)
(* The release of one request's page, page 1, is run up to MaxReleases     *)
(* times while other pages are open on the engine.                         *)
(***************************************************************************)
NoSnapshot == [kind |-> "none"]

\* The handler and engine state a release leaves behind.
Snapshot(inj, open) == [kind |-> "state", isInjected |-> inj, open |-> open]

InitRelease ==
    /\ relVariant \in {"current", "legacy"}
    /\ relInjected \in IF relVariant = "current" THEN BOOLEAN ELSE {FALSE}
    /\ relOpen \in {S \in SUBSET (1..MaxPages) : 1 \in S}
    /\ relPc = "idle"
    /\ relOutcomes = <<>>
    /\ relFirst = NoSnapshot

\* cleanup that flips the flag.
handlerCleanupToggles(inj) == ~inj

\* part_000 334-337: cleanup() logs and sets isInjected to false.
handlerCleanup(inj) == FALSE

\* index.ts 137-140: the release starts: handler.cleanup() runs, then
\* page.close() is called.  index.ts 386, 393: the earlier server calls
\* page.close() only.
Release ==
    /\ relPc = "idle"
    /\ Len(relOutcomes) < MaxReleases
    /\ relInjected' = IF relVariant = "current"
                      THEN handlerCleanup(relInjected)
                      ELSE relInjected
    /\ relPc' = "closing"
    /\ UNCHANGED <<relVariant, relOpen, relOutcomes, relFirst>>
    /\ UNCHANGED notRelease

\* index.ts 140 (386, 393): the awaited page.close() settles.  On an open
\* page it closes the page, or rejects, and the rejection is raised to the
\* caller (with the page closed or not).  On a page that is already closed
\* Playwright's Page.close() resolves without doing anything.
ReleaseCloseSettled ==
    /\ relPc = "closing"
    /\ relPc' = "idle"
    /\ \E how \in IF 1 \in relOpen
                  THEN {"closed", "rejectedClosed", "rejectedOpen"}
                  ELSE {"alreadyClosed"} :
        /\ relOpen' = IF how = "rejectedOpen" THEN relOpen ELSE relOpen \ {1}
        /\ relOutcomes' = Append(relOutcomes,
                IF how \in {"closed", "alreadyClosed"} THEN "ok" ELSE "raised")
        /\ relFirst' = IF relOutcomes = <<>> /\ how = "closed"
                       THEN Snapshot(relInjected, relOpen \ {1})
                       ELSE relFirst
    /\ UNCHANGED <<relVariant, relInjected>>
    /\ UNCHANGED notRelease

NextRelease ==
    \/ Release
    \/ ReleaseCloseSettled

(***************************************************************************)
(* Specifications                                                          *)
(***************************************************************************)
\* Each machine starts from its own initial state with the others parked.
ParkedStream == InitStream
ParkedRelay == InitRelay
ParkedHeaders == hPhase = "inbound" /\ hIn = <<>> /\ hOut = <<>>
ParkedRoute ==
    /\ rq = [method |-> "GET", path |-> "/", url |-> "absent",
             fileExists |-> FALSE, indexReadable |-> FALSE]
    /\ routeResp = NoResponse
ParkedClassify ==
    /\ cHeaders = <<>>
    /\ cUrl = [host |-> <<"api">>, path |-> <<"/", "x">>, query |-> <<>>]
    /\ cRelayed = "none"
    /\ cCalls = <<>>
    /\ cRecased = "none"
    /\ cSanitized = "none"
ParkedBuffered ==
    /\ bOrigin = [status |-> 200, statusText |-> "", headers |-> <<>>,
                  body |-> <<>>]
    /\ bPc = "fetching"
    /\ bReceived = <<>>
    /\ bResult = NoResult
    /\ bResponse = NoResponse
ParkedGenspark == InitGenspark
ParkedShutdown ==
    /\ spc = [s \in Deliveries |-> "idle"]
    /\ sCtx = [s \in Deliveries |-> 0]
    /\ sErr = [s \in Deliveries |-> {}]
    /\ exited = FALSE
    /\ variant = "current"
ParkedEngine == InitEngine
ParkedRelease ==
    /\ relVariant = "current"
    /\ relInjected = FALSE
    /\ relOpen = {1}
    /\ relPc = "idle"
    /\ relOutcomes = <<>>
    /\ relFirst = NoSnapshot

InitSpec ==
    /\ InitRelay
    /\ ParkedStream
    /\ ParkedHeaders
    /\ ParkedRoute
    /\ ParkedClassify
    /\ ParkedBuffered
    /\ ParkedGenspark
    /\ ParkedShutdown
    /\ ParkedEngine
    /\ ParkedRelease
InitSpecStream ==
    /\ ParkedRelay
    /\ InitStream
    /\ ParkedHeaders
    /\ ParkedRoute
    /\ ParkedClassify
    /\ ParkedBuffered
    /\ ParkedGenspark
    /\ ParkedShutdown
    /\ ParkedEngine
    /\ ParkedRelease
InitSpecHeaders ==
    /\ ParkedRelay
    /\ ParkedStream
    /\ InitHeaders
    /\ ParkedRoute
    /\ ParkedClassify
    /\ ParkedBuffered
    /\ ParkedGenspark
    /\ ParkedShutdown
    /\ ParkedEngine
    /\ ParkedRelease
InitSpecRoute ==
    /\ ParkedRelay
    /\ ParkedStream
    /\ ParkedHeaders
    /\ InitRoute
    /\ ParkedClassify
    /\ ParkedBuffered
    /\ ParkedGenspark
    /\ ParkedShutdown
    /\ ParkedEngine
    /\ ParkedRelease
InitSpecClassify ==
    /\ ParkedRelay
    /\ ParkedStream
    /\ ParkedHeaders
    /\ ParkedRoute
    /\ InitClassify
    /\ ParkedBuffered
    /\ ParkedGenspark
    /\ ParkedShutdown
    /\ ParkedEngine
    /\ ParkedRelease
InitSpecBuffered ==
    /\ ParkedRelay
    /\ ParkedStream
    /\ ParkedHeaders
    /\ ParkedRoute
    /\ ParkedClassify
    /\ InitBuffered
    /\ ParkedGenspark
    /\ ParkedShutdown
    /\ ParkedEngine
    /\ ParkedRelease
InitSpecGenspark ==
    /\ InitRelay
    /\ ParkedStream
    /\ ParkedHeaders
    /\ ParkedRoute
    /\ ParkedClassify
    /\ ParkedBuffered
    /\ InitGenspark
    /\ ParkedShutdown
    /\ ParkedEngine
    /\ ParkedRelease

Spec == InitSpec /\ [][NextRelay]_vars
SpecStream == InitSpecStream /\ [][NextStream]_vars
SpecHeaders == InitSpecHeaders /\ [][NextHeaders]_vars
SpecRoute == InitSpecRoute /\ [][NextRoute]_vars
SpecClassify == InitSpecClassify /\ [][NextClassify]_vars
SpecBuffered == InitSpecBuffered /\ [][NextBuffered]_vars
SpecGenspark == InitSpecGenspark /\ [][NextGenspark]_vars

ParkedRequests ==
    /\ launches = 0
    /\ pc = [r \in Req |-> "idle"]
    /\ eng = [r \in Req |-> 0]
    /\ hasPage = [r \in Req |-> FALSE]
    /\ isInjected = [r \in Req |-> FALSE]
    /\ closeCalls = [r \in Req |-> 0]
    /\ determined = [r \in Req |-> "none"]
    /\ outcome = [r \in Req |-> "none"]
    /\ page = [r \in Req |-> 0]
    /\ nPages = 0
    /\ ran = {}
    /\ classifications = [r \in Req |-> <<>>]
    /\ executors = [r \in Req |-> <<>>]
    /\ originRequests = [r \in Req |-> 0]
    /\ gpc = [g \in GReq |-> "idle"]
    /\ gCookies = [g \in GReq |-> FALSE]
    /\ gCtx = [g \in GReq |-> 0]
    /\ gFailedAt = [g \in GReq |-> "none"]
    /\ gToken = [g \in GReq |-> "none"]
    /\ gDecided = [g \in GReq |-> "none"]
    /\ gOut = [g \in GReq |-> NoResponse]
    /\ jar = [c \in 1..NumGReq |-> 0]

InitSpecShutdown ==
    /\ ParkedRequests
    /\ ParkedStream
    /\ ParkedHeaders
    /\ ParkedRoute
    /\ ParkedClassify
    /\ ParkedBuffered
    /\ InitShutdown
    /\ ParkedEngine
    /\ ParkedRelease

SpecShutdown == InitSpecShutdown /\ [][NextShutdown]_vars

InitSpecEngine ==
    /\ InitRelay
    /\ ParkedStream
    /\ ParkedHeaders
    /\ ParkedRoute
    /\ ParkedClassify
    /\ ParkedBuffered
    /\ ParkedGenspark
    /\ ParkedShutdown
    /\ InitEngine
    /\ ParkedRelease

SpecEngine == InitSpecEngine /\ [][NextEngine]_vars

InitSpecRelease ==
    /\ InitRelay
    /\ ParkedStream
    /\ ParkedHeaders
    /\ ParkedRoute
    /\ ParkedClassify
    /\ ParkedBuffered
    /\ ParkedGenspark
    /\ ParkedShutdown
    /\ ParkedEngine
    /\ InitRelease

SpecRelease == InitSpecRelease /\ [][NextRelease]_vars

InitSpecLifecycle ==
    /\ InitRelay
    /\ ParkedStream
    /\ ParkedHeaders
    /\ ParkedRoute
    /\ ParkedClassify
    /\ ParkedBuffered
    /\ ParkedGenspark
    /\ ParkedShutdown
    /\ ParkedEngine
    /\ ParkedRelease

SpecLifecycle == InitSpecLifecycle /\ [][NextLifecycle]_vars


(***************************************************************************)
(* Properties                                                              *)
(***************************************************************************)

\* C1: while no engine exists, concurrent initBrowser calls start one
\* chromium.launch only: at most one launch is in flight, at most one engine
\* is ever launched, and every request holds that engine.
C1_SingleLaunch ==
    /\ Cardinality({r \in Req : pc[r] = "launching"}) <= 1
    /\ Cardinality(engines) <= 1
    /\ \A r1, r2 \in Req : eng[r1] # 0 /\ eng[r2] # 0 => eng[r1] = eng[r2]

\* C2: for every request that acquired a page, page.close() is invoked
\* exactly once, and only after try/catch has decided the result (the
\* handler has returned or was never entered), on success and on failure.
C2_PageClosedExactlyOnce ==
    \A r \in Req :
        /\ closeCalls[r] <= 1
        /\ closeCalls[r] = 1 =>
            /\ hasPage[r]
            /\ determined[r] # "none"
            /\ pc[r] \in {"closing", "done"}
        /\ (pc[r] = "done" /\ hasPage[r]) => closeCalls[r] = 1

\* C2 witness: one request failed reading its body, the other failed inside
\* the handler or succeeded; both pages were closed once.
C2_Witness ==
    \E r1, r2 \in Req :
        /\ pc[r1] = "done" /\ determined[r1] = "500proxy" /\ closeCalls[r1] = 1
        /\ pc[r2] = "done" /\ determined[r2] \in {"500handler", "response"}
        /\ closeCalls[r2] = 1

\* C3: the chunks the caller reads from a streamed response are, in order, a
\* prefix of the text the origin wrote, and once the stream is read to its
\* end they are exactly that text.
C3_StreamIsFullText ==
    response.kind = "stream" =>
        LET got == Flatten(callerRead)
        IN  /\ Len(got) <= Len(originText)
            /\ got = SubSeq(originText, 1, Len(got))
            /\ Len(callerRead) = Len(response.chunks) => got = originText

\* C3 witness: a stream read to its end whose last chunk is the final delta
\* taken at completion, after an earlier chunk taken by a progress event.
C3_Witness ==
    /\ response.kind = "stream"
    /\ Len(callerRead) = Len(response.chunks)
    /\ Len(callerRead) = 2
    /\ 0 < lastSentLength
    /\ lastSentLength < Len(originText)

\* C4: streamed data is forwarded in real time: a chunk captured while the
\* origin response is still incomplete is already available to the caller.
C4_RealTimeForwarding ==
    (chunks # <<>> /\ readyState # 4) => response.kind = "stream"

\* C5: when the transport reports error or abort, the in-page promise is
\* rejected, not resolved, the executor returns no result built from the
\* chunks captured so far, and the caller receives the 500 response.
C5_FailureRejects ==
    xhrFail # "none" =>
        /\ promise = "rejected"
        /\ result = NoResult
        /\ response # NoResponse => response.kind = "handler500"

\* C6: every request ends in a response; no exception leaves
\* handleProxyRequest.
C6_NoExceptionEscapes ==
    \A r \in Req :
        pc[r] = "done" =>
            outcome[r] \in {"400", "response", "500proxy", "500handler"}

\* C7: what try/catch decided is what the caller receives, whatever happens
\* during teardown.
C7_TeardownSwallowed ==
    \A r \in Req :
        (pc[r] = "done" /\ closeCalls[r] > 0) => outcome[r] = determined[r]

\* The header names the Header Sanitizer contract forbids by name.
ContractForbidden ==
    { N("connection"), N("content-length"), N("transfer-encoding"),
      N("upgrade"), N("trailer"), N("te"), N("host"), N("via"), N("date"),
      N("dnt"), N("expect"), N("keep-alive"), N("origin"), N("referer"),
      N("cookie"), N("cookie2") }

\* Proxy-chain headers of the contract: x-forwarded-* and CDN/edge headers.
IsProxyChain(name) ==
    name[1] \in {"x-forwarded-", "cf-"} \/ name = N("cdn-loop")

\* C8 as stated: every request without a url parameter is answered 400
\* 'Missing url parameter', whatever its method and path.
C8_Missing400Everywhere ==
    (routeResp # NoResponse /\ rq.url = "absent") =>
        routeResp = [kind |-> "text", status |-> 400,
                     body |-> "Missing url parameter"]

\* C8 amended: every request without a url parameter that the route table
\* hands to handleProxyRequest (not a served /public file, not GET / and not
\* GET /genspark) is answered 400 'Missing url parameter'.
C8_Missing400WhenRelayed ==
    ( /\ routeResp # NoResponse
      /\ rq.url = "absent"
      /\ ~StaticServes(rq)
      /\ ~(rq.method = "GET" /\ rq.path \in {"/", "/genspark"}) ) =>
        routeResp = [kind |-> "text", status |-> 400,
                     body |-> "Missing url parameter"]

\* C8 witness: POST / without url reached handleProxyRequest and got 400.
C8_Witness ==
    /\ routeResp # NoResponse
    /\ rq.url = "absent"
    /\ rq.method = "POST"
    /\ rq.path = "/"
    /\ routeResp.status = 400

\* C9: the headers handed to the transport hold no name the
\* contract forbids, no sec- or proxy- name and no proxy-chain header.
C9_NoForbiddenNoProxyChain ==
    hPhase = "filtered" =>
        \A k \in DOMAIN hOut :
            LET name == ToLowerCase(k).name
            IN  /\ name \notin ContractForbidden
                /\ name[1] \notin {"sec-", "proxy-"}
                /\ ~IsProxyChain(name)

\* C9, the part the code keeps: the headers handed to the transport hold no
\* name the contract forbids by name, no sec- or proxy- name, and none of
\* x-forwarded-for, x-forwarded-port, x-forwarded-proto.
C9_NoForbidden ==
    hPhase = "filtered" =>
        \A k \in DOMAIN hOut :
            LET name == ToLowerCase(k).name
            IN  /\ name \notin ContractForbidden
                /\ name[1] \notin {"sec-", "proxy-"}
                /\ name \notin { <<"x-forwarded-", "for">>,
                                 <<"x-forwarded-", "port">>,
                                 <<"x-forwarded-", "proto">> }

\* C10 as stated: every header outside the contract's forbidden set is in the
\* sanitized map under its own key with its own value.
C10_UnknownPassThrough ==
    hPhase = "direct" =>
        \A k \in DOMAIN hIn :
            LET name == ToLowerCase(k).name
            IN  ( /\ name \notin ContractForbidden
                  /\ name[1] \notin {"sec-", "proxy-"}
                  /\ ~IsProxyChain(name) ) =>
                    (k \in DOMAIN hOut /\ hOut[k] = hIn[k])

\* C10 amended: every header outside the contract's forbidden set that is
\* not accept-charset, accept-encoding, access-control-request-headers,
\* access-control-request-method or user-agent either is in the sanitized map
\* under its own key with its own value.
C10_UnknownPassThroughExceptFive ==
    hPhase = "direct" =>
        \A k \in DOMAIN hIn :
            LET name == ToLowerCase(k).name
            IN  ( /\ name \notin ContractForbidden
                  /\ name[1] \notin {"sec-", "proxy-"}
                  /\ ~IsProxyChain(name)
                  /\ name \notin { N("accept-charset"), N("accept-encoding"),
                                   N("access-control-request-headers"),
                                   N("access-control-request-method"),
                                   N("user-agent") } ) =>
                    (k \in DOMAIN hOut /\ hOut[k] = hIn[k])

\* C10 witness: Authorization in mixed case was kept under that key while a
\* cookie sent with it was dropped.
C10_Witness ==
    /\ hPhase = "direct"
    /\ Key(N("authorization"), FALSE) \in DOMAIN hOut
    /\ Key(N("cookie"), TRUE) \in DOMAIN hIn
    /\ Key(N("cookie"), TRUE) \notin DOMAIN hOut

\* C11: the header map handed to the in-browser transport carries the
\* proxy's fixed User-Agent value, whatever User-Agent the request had.
C11_FixedUserAgent ==
    hPhase = "filtered" =>
        /\ Key(N("user-agent"), TRUE) \in DOMAIN hOut
        /\ hOut[Key(N("user-agent"), TRUE)] = userAgent

\* The request's Accept header: the value under the name accept, in any
\* casing.
HeaderNamed(headers, name) ==
    IF \E k \in DOMAIN headers : k.name = name
    THEN headers[CHOOSE k \in DOMAIN headers : k.name = name]
    ELSE <<>>

\* C12: a relayed request is classified Streaming iff its Accept header
\* contains text/event-stream or application/stream, or the path of its url
\* (not host, not query) contains /stream, generate, streaming,
\* chat/completions or v1/completions, or its Content-Type is JSON and the
\* url contains stream; every other request is classified Buffered.
C12_ClassifiedByAcceptPathJson ==
    cRelayed # "none" =>
        LET accept == HeaderNamed(cHeaders, N("accept"))
            contentType == HeaderNamed(cHeaders, N("content-type"))
            streaming ==
                \/ Includes(accept, <<"text/event-stream">>)
                \/ Includes(accept, <<"application/stream">>)
                \/ Includes(cUrl.path, <<"/", "stream">>)
                \/ Includes(cUrl.path, <<"generate">>)
                \/ Includes(cUrl.path, <<"stream", "ing">>)
                \/ Includes(cUrl.path, <<"chat", "/", "completions">>)
                \/ Includes(cUrl.path, <<"v1", "/", "completions">>)
                \/ ( /\ Includes(contentType, <<"application/json">>)
                     /\ Includes(UrlString(cUrl), <<"stream">>) )
        IN  cRelayed = IF streaming THEN "stream" ELSE "buffered"

\* C13: _isStreamRequest returns a class for every (headers, url), the same
\* class on repeated calls, and the same class when only the casing of the
\* header names is changed.
C13_TotalDeterministicCaseBlind ==
    /\ \A i \in 1..Len(cCalls) : cCalls[i] \in {"stream", "buffered"}
    /\ \A i, j \in 1..Len(cCalls) : cCalls[i] = cCalls[j]
    /\ (cCalls # <<>> /\ cRecased # "none") => cRecased = cCalls[1]

\* C14: for every origin response the executor observed, the status code and
\* the status text of the response returned to the caller equal the
\* origin's, bodiless statuses such as 204 and 304 included.
C14_StatusVerbatim ==
    (bResponse # NoResponse /\ bResult # Rejected) =>
        /\ bResponse.status = bOrigin.status
        /\ bResponse.statusText = bOrigin.statusText

\* C15: the response returned to the caller carries the origin's headers
\* except content-encoding and content-length, which never appear in it.
C15_FramingHeadersRemoved ==
    (bResponse # NoResponse /\ bResponse.kind = "regular") =>
        /\ \A k \in DOMAIN bResponse.headers :
            k.name \notin {N("content-encoding"), N("content-length")}
        /\ \A k \in DOMAIN bOrigin.headers :
            k.name \notin {N("content-encoding"), N("content-length")} =>
                /\ ToLowerCase(k) \in DOMAIN bResponse.headers
                /\ bResponse.headers[ToLowerCase(k)] = bOrigin.headers[k]

\* C16: on the buffered path the body returned to the caller equals the
\* origin's body byte for byte, or the request fails with the handler's 500:
\* never a partial body.
C16_BodyExactOrFailure ==
    bResponse # NoResponse =>
        \/ bResponse.kind = "regular" /\ bResponse.body = bOrigin.body
        \/ bResponse = Handler500

\* C16 witness: a binary body of two bytes came back whole.
C16_Witness ==
    /\ bResponse # NoResponse
    /\ bResponse.kind = "regular"
    /\ Len(bResponse.body) >= 2
    /\ \E i \in 1..Len(bResponse.body) : bResponse.body[i] = 255

\* C17: a /genspark response carries code 200 and a token only when the
\* token script resolved with a token; whenever navigation or the token
\* script fails or times out, the response is code 500 without a token.
C17_TokenOnlyOnSuccess ==
    \A g \in GReq :
        (gpc[g] = "done" /\ gOut[g] # Threw) =>
            /\ gOut[g].code = 200 =>
                (gFailedAt[g] = "none" /\ gOut[g].token = "token")
            /\ gFailedAt[g] \in {"goto", "evaluate"} =>
                (gOut[g].code = 500 /\ gOut[g].token = "none")

\* C18: when a /genspark request has failed (cookies, page, navigation or
\* token script) and no other request is under way, the context it used is
\* closed and the reference is cleared, so that the next request creates a
\* fresh context; when it has succeeded, the context is still in place.
C18_FailureInvalidatesContext ==
    \A g \in GReq :
        (gpc[g] = "done" /\ \A h \in GReq \ {g} : gpc[h] = "idle") =>
            /\ gFailedAt[g] \in {"cookies", "newPage", "goto", "evaluate"} =>
                gensparkContext = 0
            /\ gFailedAt[g] = "none" =>
                (gensparkContext # 0 /\ gensparkContext \in ctxOpen)

\* C19: once an initBrowser call has returned an engine, every call made
\* later returns that same engine and starts no launch.
C19_AcquisitionIdempotent ==
    \A c \in Calls :
        callSeen[c] # {} =>
            /\ ~callLaunched[c]
            /\ callPc[c] = "returned" => callSeen[c] = {callRet[c]}

\* C20: every cleanup call is not started, waiting for a close() to
\* settle, or has reached process exit: no error of closing the credential
\* context or the engine leaves the signal handler.
C20_ShutdownReachesExit ==
    \A s \in Deliveries :
        spc[s] \in {"idle", "closingContext", "closingBrowser", "exited"}

\* C21: the pages of different requests are different pages, and every
\* in-page execution made for a request ran on that request's own page.
C21_PageOwnedByOneRequest ==
    /\ \A r1, r2 \in Req :
        (r1 # r2 /\ page[r1] # 0) => page[r1] # page[r2]
    /\ \A e \in ran : e[1] = page[e[2]]

\* C21 witness: two requests are in flight at once, each with an in-page
\* execution under way on its page.
C21_Witness ==
    \E r1, r2 \in Req :
        /\ r1 # r2
        /\ pc[r1] = "evaluate" /\ <<page[r1], r1>> \in ran
        /\ pc[r2] = "evaluate" /\ <<page[r2], r2>> \in ran

\* C22: for every inbound request the class is computed at most once, at
\* most one executor is invoked, the one of that class, and at most one
\* request goes to the origin, also when the request ended in a failure.
C22_AtMostOnce ==
    \A r \in Req :
        /\ Len(classifications[r]) <= 1
        /\ executors[r] = classifications[r]
        /\ originRequests[r] <= 1
        /\ pc[r] \in {"evaluate", "finally", "closing"} /\ isInjected[r] =>
            Len(executors[r]) = 1

\* C22 witness: a request whose executor failed has ended with the handler's
\* 500 after one classification and one origin request.
C22_Witness ==
    \E r \in Req :
        /\ pc[r] = "done"
        /\ outcome[r] = "500handler"
        /\ Len(classifications[r]) = 1
        /\ originRequests[r] = 1

\* C23: for an origin response delivered in N writes the capture holds at
\* most N + 1 chunks and none of them is empty, in the page and in the
\* result handed to the host.
C23_ChunkCountBounded ==
    /\ Len(chunks) <= nWrites + 1
    /\ \A i \in 1..Len(chunks) : chunks[i] # <<>>
    /\ result # NoResult =>
        /\ Len(result.chunks) <= nWrites + 1
        /\ \A i \in 1..Len(result.chunks) : result.chunks[i] # <<>>

\* C23 witness: two writes were captured as two chunks, the second one by
\* the final delta at completion, with progress notifications in between.
C23_Witness ==
    /\ nWrites = 2
    /\ readyState = 4
    /\ xhrFail = "none"
    /\ result # NoResult
    /\ Len(result.chunks) = 2
    /\ lastSentLength < Len(responseText)

\* C26: lastSentLength is the total length of the chunks captured so far,
\* also after the final delta taken at readyState 4.
C26_LastSentLengthTracksChunks ==
    lastSentLength = Len(Flatten(chunks))

\* C28: the page is closed only after the in-page execution has settled,
\* and on the streaming path what the caller reads once the page is closed
\* is the sequence of chunks captured before: in order, nothing missing.
C28_CloseAfterCapture ==
    pageState # "open" =>
        /\ promise # "pending"
        /\ response.kind = "stream" =>
            /\ Readable(response) = result.chunks
            /\ Len(callerRead) <= Len(result.chunks)
            /\ callerRead = SubSeq(result.chunks, 1, Len(callerRead))

\* C28 witness: after the page was closed the caller has read a stream of
\* two chunks to its end.
C28_Witness ==
    /\ pageState = "closed"
    /\ response.kind = "stream"
    /\ Len(result.chunks) = 2
    /\ callerRead = result.chunks

ShutdownStarted == \E s \in Deliveries : spc[s] # "idle"

\* C25: once the shutdown handler has started, no request is handed the
\* engine, no page is created and no launch starts.
C25_NoUseAfterShutdownStarted ==
    [][ShutdownStarted =>
        (eng' = eng /\ nPages' = nPages /\ launches' = launches)]_vars

\* C27: when the process has exited through cleanup, every engine that was
\* launched has been closed and no launch is still in flight.
C27_AllEnginesClosedAtExit ==
    exited => (engines = {} /\ \A r \in Req : pc[r] # "launching")

\* C29: while a /genspark request navigates or runs the token script, the
\* context of its page holds exactly the cookies that request sent: its
\* own when it sent some, none when it sent none.
C29_OwnCookiesOnly ==
    \A g \in GReq :
        (gpc[g] \in {"goto", "evaluate"} /\ gCtx[g] \in ctxOpen) =>
            jar[gCtx[g]] = IF gCookies[g] THEN g ELSE 0

\* C30: the context of a request that is navigating or evaluating has not
\* been closed by another request, and as long as no request has failed
\* there is at most one context.
C30_ContextNotPulledAway ==
    /\ \A h \in GReq :
        gpc[h] \in {"goto", "evaluate"} => gCtx[h] \in ctxOpen
    /\ (\A g \in GReq : gFailedAt[g] = "none") => Cardinality(ctxOpen) <= 1

\* C31: classifying the headers _filterUnsafeHeaders returns gives the class
\* that classifying the headers as given gives, for every header map and
\* url.
C31_SanitizeThenClassify ==
    (cSanitized # "none" /\ cCalls # <<>>) => cSanitized = cCalls[1]

\* C31 witness: a request whose Accept value alone makes it Streaming was
\* classified both ways, and sanitizing had removed a header from its map.
C31_Witness ==
    /\ cSanitized = "stream"
    /\ cCalls # <<>>
    /\ Key(N("accept"), TRUE) \in DOMAIN cHeaders
    /\ DOMAIN filterUnsafeHeaders(cHeaders) # DOMAIN cHeaders
    /\ cUrl = [host |-> <<"api">>, path |-> <<"/", "x">>, query |-> <<>>]

\* C32: a request whose engine launch fails ends failed, without an engine
\* and without a second launch, and the step stores nothing: `browser` and
\* the set of launched engines stay as they were, so with no engine launched
\* `browser` stays unset; and a request that arrives while `browser` is
\* unset starts a launch of its own.
C32_FailedLaunchStoresNothing ==
    [][ /\ \A r \in Req :
            (pc[r] = "launching" /\ pc'[r] = "done") =>
                /\ outcome'[r] = "threw"
                /\ eng'[r] = 0
                /\ browser' = browser
                /\ engines' = engines
                /\ launches' = launches
                /\ engines = {} => browser' = 0
        /\ \A r \in Req :
            (pc[r] = "idle" /\ pc'[r] \notin {"idle", "done"} /\ browser = 0) =>
                /\ pc'[r] = "launching"
                /\ launches' = launches + 1 ]_vars

\* C32 witness: one request has failed on its launch, no engine is stored,
\* and another request is waiting on a second launch.
C32_Witness ==
    \E r1, r2 \in Req :
        /\ r1 # r2
        /\ pc[r1] = "done" /\ outcome[r1] = "threw" /\ eng[r1] = 0
        /\ browser = 0 /\ engines = {}
        /\ pc[r2] = "launching"
        /\ launches = 2

=============================================================================
